---- MODULE Spec2Model ----
(***************************************************************************)
(* Temporal gesture classifier of face_comm (src/src/gesture_detector.py). *)
(*                                                                         *)
(* Units.  The source works on floats; the model keeps the comparisons and *)
(* scales every quantity to an integer:                                    *)
(*   time             tenths of a second  (gesture_cooldown 0.5 -> 5)      *)
(*   aspect ratios    hundredths          (eye_ar_threshold 0.20 -> 20)    *)
(*   eyebrow position thousandths         (eyebrow_raise_threshold -> 20)  *)
(*   head tilt        whole degrees in (-180, 180]                         *)
(* The eyebrow baseline sum(h)/len(h) is kept as the exact fraction        *)
(* <<sum, len>>; comparisons against it are cross-multiplied.              *)
(*                                                                         *)
(* A detect call takes one feature sample (what the landmark provider and  *)
(* the feature extractor hand to the classifier) and one clock reading:    *)
(* every time.time() read inside one call returns the same tick.           *)
(***************************************************************************)
EXTENDS Integers, Sequences, FiniteSets, TLC

VARIABLES
    detector,   \* the GestureDetector instance (all of its fields)
    clock,      \* time.time(), in ticks
    state,      \* GestureState returned by the last detect call
    events,     \* on_gesture_detected invocations of the last call, in order
    op,         \* the last public operation called
    obs,        \* observer: history of the run that the detector does not keep
    twin,       \* a freshly constructed detector run alongside since reset()
    session,    \* the feature samples the face in front of the camera produces
    server,     \* the web application: its handler objects and open connections
    landmarks   \* the landmarks last measured, with the aspect ratio computed from them

vars == <<detector, clock, state, events, op, obs, twin, session, server, landmarks>>

----------------------------------------------------------------------------
(* GestureType *)

NONE == "NONE"
DOUBLE_BLINK == "DOUBLE_BLINK"
LONG_CLOSE == "LONG_CLOSE"
EYEBROWS_RAISED == "EYEBROWS_RAISED"
MOUTH_OPEN == "MOUTH_OPEN"
HEAD_TILT_LEFT == "HEAD_TILT_LEFT"
HEAD_TILT_RIGHT == "HEAD_TILT_RIGHT"

Gestures ==
    {DOUBLE_BLINK, LONG_CLOSE, EYEBROWS_RAISED, MOUTH_OPEN, HEAD_TILT_LEFT, HEAD_TILT_RIGHT}

LevelGestures == {MOUTH_OPEN, EYEBROWS_RAISED, HEAD_TILT_LEFT, HEAD_TILT_RIGHT}

\* The order in which detect evaluates the channels.
ChannelOrder ==
    <<DOUBLE_BLINK, LONG_CLOSE, MOUTH_OPEN, EYEBROWS_RAISED, HEAD_TILT_LEFT, HEAD_TILT_RIGHT>>

----------------------------------------------------------------------------
(* Thresholds *)

DefaultEyeArThreshold == 20
DefaultMinBlinkFrames == 2
DefaultDoubleBlinkInterval == 8
DefaultLongCloseFrames == 30
DefaultMouthArThreshold == 30
DefaultMouthConfirmFrames == 5
DefaultEyebrowRaiseThreshold == 20
DefaultEyebrowConfirmFrames == 5
DefaultHeadTiltThreshold == 15
DefaultHeadTiltDeadzone == 7
DefaultHeadTiltConfirmFrames == 5
DefaultGestureCooldown == 5

DefaultThresholds ==
    [ eye_ar_threshold         |-> DefaultEyeArThreshold,
      min_blink_frames         |-> DefaultMinBlinkFrames,
      double_blink_interval    |-> DefaultDoubleBlinkInterval,
      long_close_frames        |-> DefaultLongCloseFrames,
      mouth_ar_threshold       |-> DefaultMouthArThreshold,
      mouth_confirm_frames     |-> DefaultMouthConfirmFrames,
      eyebrow_raise_threshold  |-> DefaultEyebrowRaiseThreshold,
      eyebrow_confirm_frames   |-> DefaultEyebrowConfirmFrames,
      head_tilt_threshold      |-> DefaultHeadTiltThreshold,
      head_tilt_deadzone       |-> DefaultHeadTiltDeadzone,
      head_tilt_confirm_frames |-> DefaultHeadTiltConfirmFrames,
      gesture_cooldown         |-> DefaultGestureCooldown ]

\* Bounds of the configurations explored (window lengths in frames, times in ticks).
LongFrames == 3
ConfirmFrames == 2
BlinkInterval == 3
Cooldown == 2

\* A configuration with short windows: Thresholds(long_close_frames=..., ...).
SmallThresholds ==
    [ DefaultThresholds EXCEPT
        !.long_close_frames        = LongFrames,
        !.mouth_confirm_frames     = ConfirmFrames,
        !.eyebrow_confirm_frames   = ConfirmFrames,
        !.head_tilt_confirm_frames = ConfirmFrames,
        !.double_blink_interval    = BlinkInterval,
        !.gesture_cooldown         = Cooldown ]

\* A second configuration, with other window lengths and times.
OtherThresholds ==
    [ SmallThresholds EXCEPT
        !.long_close_frames        = LongFrames - 1,
        !.mouth_confirm_frames     = ConfirmFrames + 1,
        !.eyebrow_confirm_frames   = ConfirmFrames + 1,
        !.head_tilt_confirm_frames = ConfirmFrames + 1,
        !.gesture_cooldown         = Cooldown + 1 ]

----------------------------------------------------------------------------
(* GestureState *)

DefaultState ==
    [ face_detected    |-> FALSE,
      eyes_closed      |-> FALSE,
      left_eye_ar      |-> 0,
      right_eye_ar     |-> 0,
      mouth_open       |-> FALSE,
      mouth_ar         |-> 0,
      eyebrows_raised  |-> FALSE,
      eyebrow_position |-> 0,
      head_tilt_angle  |-> 0,
      head_tilt_left   |-> FALSE,
      head_tilt_right  |-> FALSE,
      head_tilt_center |-> TRUE,
      detected_gesture |-> NONE ]

----------------------------------------------------------------------------
(* Python containers *)

EmptyDict == [k \in {} |-> 0]

\* dict[k] = v
DictPut(dict, k, v) == [x \in (DOMAIN dict) \cup {k} |-> IF x = k THEN v ELSE dict[x]]

\* dict.get(k, default)
DictGet(dict, k, default) == IF k \in DOMAIN dict THEN dict[k] ELSE default

\* deque(maxlen=maxlen).append(x)
DequeAppend(q, x, maxlen) ==
    IF maxlen = 0 THEN << >>
    ELSE IF Len(q) >= maxlen THEN Append(Tail(q), x)
    ELSE Append(q, x)

\* all(q)
All(q) == \A i \in 1..Len(q) : q[i]

RECURSIVE Sum(_)
\* sum(q)
Sum(q) == IF q = << >> THEN 0 ELSE Head(q) + Sum(Tail(q))

Abs(x) == IF x < 0 THEN -x ELSE x

\* eyebrow_baseline: None, or the fraction <<numerator, denominator>>
None == << >>

BaselineHistoryMaxLen == 30
BaselineMinSamples == 10

----------------------------------------------------------------------------
(* GestureDetector.__init__ *)

NewDetector(thresholds) ==
    [ thresholds |-> thresholds,
      maxlen |->
        [ eye_closed      |-> thresholds.long_close_frames,
          mouth_open      |-> thresholds.mouth_confirm_frames,
          eyebrow_raised  |-> thresholds.eyebrow_confirm_frames,
          head_tilt_left  |-> thresholds.head_tilt_confirm_frames,
          head_tilt_right |-> thresholds.head_tilt_confirm_frames ],
      eye_closed_history       |-> << >>,
      mouth_open_history       |-> << >>,
      eyebrow_raised_history   |-> << >>,
      head_tilt_left_history   |-> << >>,
      head_tilt_right_history  |-> << >>,
      last_blink_time          |-> 0,
      blink_count              |-> 0,
      eyebrow_baseline_history |-> << >>,
      eyebrow_baseline         |-> None,
      last_gesture_time        |-> EmptyDict,
      gesture_confirmed        |-> EmptyDict ]

----------------------------------------------------------------------------
(* Cooldown and confirm latch *)

\* _is_gesture_available without the cooldown: always available.
IsGestureAvailable_Always(d, gesture_type, now) == TRUE

\* _is_gesture_available with elapsed > cooldown in place of elapsed >= cooldown.
IsGestureAvailable_Strict(d, gesture_type, now) ==
    IF gesture_type \notin DOMAIN d.last_gesture_time
    THEN TRUE
    ELSE now - d.last_gesture_time[gesture_type] > d.thresholds.gesture_cooldown

IsGestureAvailable(d, gesture_type, now) ==
    IF gesture_type \notin DOMAIN d.last_gesture_time
    THEN TRUE
    ELSE now - d.last_gesture_time[gesture_type] >= d.thresholds.gesture_cooldown

\* _is_gesture_ready without the latch: always ready.
IsGestureReady_Always(d, gesture_type) == TRUE

IsGestureReady(d, gesture_type) == ~DictGet(d.gesture_confirmed, gesture_type, FALSE)

ResetGestureConfirmed(d, gesture_type) ==
    [d EXCEPT !.gesture_confirmed = DictPut(@, gesture_type, FALSE)]

\* A detect call in progress: the detector, the snapshot being filled in, the callbacks made.
ConfirmGesture(c, gesture_type, now) ==
    [ d  |-> [ c.d EXCEPT
                 !.last_gesture_time = DictPut(@, gesture_type, now),
                 !.gesture_confirmed = DictPut(@, gesture_type, TRUE) ],
      st |-> c.st,
      ev |-> Append(c.ev, gesture_type) ]

\* state.detected_gesture = g; self._confirm_gesture(g)
\* An emission that leaves the snapshot's slot to the first gesture of the call.
Fire_FirstWins(c, gesture_type, now) ==
    ConfirmGesture(
        [c EXCEPT !.st.detected_gesture = IF @ = NONE THEN gesture_type ELSE @],
        gesture_type, now)

Fire(c, gesture_type, now) ==
    ConfirmGesture([c EXCEPT !.st.detected_gesture = gesture_type], gesture_type, now)

----------------------------------------------------------------------------
(* GestureDetector.detect, channel by channel *)

\* avg_ear < eye_ar_threshold, with avg_ear = (right_ear + left_ear) / 2
EyesClosed(th, s) == s.left_ear + s.right_ear < 2 * th.eye_ar_threshold

StepEyes(c, s) ==
    LET eyes_closed == EyesClosed(c.d.thresholds, s)
    IN  [ c EXCEPT
            !.st.face_detected = TRUE,
            !.st.right_eye_ar = s.right_ear,
            !.st.left_eye_ar = s.left_ear,
            !.st.eyes_closed = eyes_closed,
            !.d.eye_closed_history = DequeAppend(@, eyes_closed, c.d.maxlen.eye_closed) ]

\* A closed->open edge that counts only after min_blink_frames closed samples.
IsBlink_MinFrames(d, eyes_closed) ==
    /\ Len(d.eye_closed_history) >= d.thresholds.min_blink_frames + 1
    /\ \A i \in 1..d.thresholds.min_blink_frames :
          d.eye_closed_history[Len(d.eye_closed_history) - i]
    /\ ~eyes_closed

\* The closed->open edge of the two most recent samples.
IsBlink(d, eyes_closed) ==
    /\ Len(d.eye_closed_history) >= 2
    /\ d.eye_closed_history[Len(d.eye_closed_history) - 1]
    /\ ~eyes_closed

\* StepBlink without the double_blink_interval test: any second blink completes the pair.
StepBlink_NoInterval(c, now) ==
    IF ~IsBlink(c.d, c.st.eyes_closed) THEN c
    ELSE IF ~IsGestureAvailable(c.d, DOUBLE_BLINK, now)
    THEN [c EXCEPT !.d.blink_count = 0, !.d.last_blink_time = 0]
    ELSE IF c.d.blink_count >= 1
         THEN LET c2 == Fire([c EXCEPT !.d.blink_count = @ + 1], DOUBLE_BLINK, now)
              IN  [c2 EXCEPT !.d.blink_count = 0, !.d.last_blink_time = 0]
         ELSE [c EXCEPT !.d.blink_count = 1, !.d.last_blink_time = now]

\* StepBlink that counts a blink seen in the cooldown as the first of a new sequence.
StepBlink_CooldownCounts(c, now) ==
    IF ~IsBlink(c.d, c.st.eyes_closed) THEN c
    ELSE IF ~IsGestureAvailable(c.d, DOUBLE_BLINK, now)
    THEN [c EXCEPT !.d.blink_count = 1, !.d.last_blink_time = now]
    ELSE LET time_since_last == now - c.d.last_blink_time
         IN  IF time_since_last < c.d.thresholds.double_blink_interval /\ c.d.blink_count >= 1
             THEN LET c1 == [c EXCEPT !.d.blink_count = @ + 1]
                  IN  IF c1.d.blink_count >= 2
                      THEN LET c2 == Fire(c1, DOUBLE_BLINK, now)
                           IN  [c2 EXCEPT !.d.blink_count = 0, !.d.last_blink_time = 0]
                      ELSE c1
             ELSE [c EXCEPT !.d.blink_count = 1, !.d.last_blink_time = now]

\* StepBlink that drops a sequence whose second blink comes late instead of restarting it.
StepBlink_NoRestart(c, now) ==
    IF ~IsBlink(c.d, c.st.eyes_closed) THEN c
    ELSE IF ~IsGestureAvailable(c.d, DOUBLE_BLINK, now)
    THEN [c EXCEPT !.d.blink_count = 0, !.d.last_blink_time = 0]
    ELSE LET time_since_last == now - c.d.last_blink_time
         IN  IF time_since_last < c.d.thresholds.double_blink_interval /\ c.d.blink_count >= 1
             THEN LET c1 == [c EXCEPT !.d.blink_count = @ + 1]
                  IN  IF c1.d.blink_count >= 2
                      THEN LET c2 == Fire(c1, DOUBLE_BLINK, now)
                           IN  [c2 EXCEPT !.d.blink_count = 0, !.d.last_blink_time = 0]
                      ELSE c1
             ELSE IF c.d.blink_count >= 1
                  THEN [c EXCEPT !.d.blink_count = 0, !.d.last_blink_time = 0]
                  ELSE [c EXCEPT !.d.blink_count = 1, !.d.last_blink_time = now]

\* StepBlink that leaves the counter and the timestamp as they are after the emission.
StepBlink_KeepsCount(c, now) ==
    IF ~IsBlink(c.d, c.st.eyes_closed) THEN c
    ELSE IF ~IsGestureAvailable(c.d, DOUBLE_BLINK, now)
    THEN [c EXCEPT !.d.blink_count = 0, !.d.last_blink_time = 0]
    ELSE LET time_since_last == now - c.d.last_blink_time
         IN  IF time_since_last < c.d.thresholds.double_blink_interval /\ c.d.blink_count >= 1
             THEN LET c1 == [c EXCEPT !.d.blink_count = @ + 1]
                  IN  IF c1.d.blink_count >= 2
                      THEN Fire(c1, DOUBLE_BLINK, now)
                      ELSE c1
             ELSE [c EXCEPT !.d.blink_count = 1, !.d.last_blink_time = now]

StepBlink(c, now) ==
    IF ~IsBlink(c.d, c.st.eyes_closed) THEN c
    ELSE IF ~IsGestureAvailable(c.d, DOUBLE_BLINK, now)
    THEN [c EXCEPT !.d.blink_count = 0, !.d.last_blink_time = 0]
    ELSE LET time_since_last == now - c.d.last_blink_time
         IN  IF time_since_last < c.d.thresholds.double_blink_interval /\ c.d.blink_count >= 1
             THEN LET c1 == [c EXCEPT !.d.blink_count = @ + 1]
                  IN  IF c1.d.blink_count >= 2
                      THEN LET c2 == Fire(c1, DOUBLE_BLINK, now)
                           IN  [c2 EXCEPT !.d.blink_count = 0, !.d.last_blink_time = 0]
                      ELSE c1
             ELSE [c EXCEPT !.d.blink_count = 1, !.d.last_blink_time = now]

\* StepLongClose without the window-length test: fires as soon as every sample kept is closed.
StepLongClose_NoLength(c, now) ==
    IF All(c.d.eye_closed_history) /\ IsGestureAvailable(c.d, LONG_CLOSE, now)
    THEN Fire(c, LONG_CLOSE, now)
    ELSE c

\* StepLongClose with a confirm latch, as the level-triggered channels have.
StepLongClose_Latched(c, now) ==
    IF /\ Len(c.d.eye_closed_history) = c.d.thresholds.long_close_frames
       /\ All(c.d.eye_closed_history)
       /\ IsGestureAvailable(c.d, LONG_CLOSE, now)
       /\ IsGestureReady(c.d, LONG_CLOSE)
    THEN Fire(c, LONG_CLOSE, now)
    ELSE c

StepLongClose(c, now) ==
    IF /\ Len(c.d.eye_closed_history) = c.d.thresholds.long_close_frames
       /\ All(c.d.eye_closed_history)
       /\ IsGestureAvailable(c.d, LONG_CLOSE, now)
    THEN Fire(c, LONG_CLOSE, now)
    ELSE c

\* StepMouth without the cooldown test.
StepMouth_NoCooldown(c, s, now) ==
    LET mouth_detected == s.mouth_ar > c.d.thresholds.mouth_ar_threshold
        c1 == [c EXCEPT !.st.mouth_ar = s.mouth_ar, !.st.mouth_open = mouth_detected]
        c2 == IF ~mouth_detected
              THEN [c1 EXCEPT !.d = ResetGestureConfirmed(@, MOUTH_OPEN)]
              ELSE c1
        c3 == [c2 EXCEPT !.d.mouth_open_history =
                             DequeAppend(@, mouth_detected, c.d.maxlen.mouth_open)]
    IN  IF /\ All(c3.d.mouth_open_history)
           /\ Len(c3.d.mouth_open_history) = c3.d.thresholds.mouth_confirm_frames
           /\ IsGestureReady(c3.d, MOUTH_OPEN)
        THEN Fire(c3, MOUTH_OPEN, now)
        ELSE c3

\* StepMouth that clears the latch only once the window holds no open sample.
StepMouth_ResetOnEmptyWindow(c, s, now) ==
    LET mouth_detected == s.mouth_ar > c.d.thresholds.mouth_ar_threshold
        c1 == [c EXCEPT !.st.mouth_ar = s.mouth_ar, !.st.mouth_open = mouth_detected]
        c2 == [c1 EXCEPT !.d.mouth_open_history =
                             DequeAppend(@, mouth_detected, c.d.maxlen.mouth_open)]
        c3 == IF \A i \in 1..Len(c2.d.mouth_open_history) : ~c2.d.mouth_open_history[i]
              THEN [c2 EXCEPT !.d = ResetGestureConfirmed(@, MOUTH_OPEN)]
              ELSE c2
    IN  IF /\ All(c3.d.mouth_open_history)
           /\ Len(c3.d.mouth_open_history) = c3.d.thresholds.mouth_confirm_frames
           /\ IsGestureAvailable(c3.d, MOUTH_OPEN, now)
           /\ IsGestureReady(c3.d, MOUTH_OPEN)
        THEN Fire(c3, MOUTH_OPEN, now)
        ELSE c3

StepMouth(c, s, now) ==
    LET mouth_detected == s.mouth_ar > c.d.thresholds.mouth_ar_threshold
        c1 == [c EXCEPT !.st.mouth_ar = s.mouth_ar, !.st.mouth_open = mouth_detected]
        c2 == IF ~mouth_detected
              THEN [c1 EXCEPT !.d = ResetGestureConfirmed(@, MOUTH_OPEN)]
              ELSE c1
        c3 == [c2 EXCEPT !.d.mouth_open_history =
                             DequeAppend(@, mouth_detected, c.d.maxlen.mouth_open)]
    IN  IF /\ All(c3.d.mouth_open_history)
           /\ Len(c3.d.mouth_open_history) = c3.d.thresholds.mouth_confirm_frames
           /\ IsGestureAvailable(c3.d, MOUTH_OPEN, now)
           /\ IsGestureReady(c3.d, MOUTH_OPEN)
        THEN Fire(c3, MOUTH_OPEN, now)
        ELSE c3

\* abs(head_tilt) > (180 - deadzone)
IsHeadCentered(th, head_tilt) == Abs(head_tilt) > 180 - th.head_tilt_deadzone

\* abs(head_tilt) > (180 - threshold)
IsHeadCenteredForEyebrow(th, head_tilt) == Abs(head_tilt) > 180 - th.head_tilt_threshold

\* EyebrowsDetected without the head-pose gate.
EyebrowsDetected_Ungated(d, s) ==
    /\ d.eyebrow_baseline # None
    /\ s.eyebrow_pos * d.eyebrow_baseline[2] - d.eyebrow_baseline[1]
         > d.thresholds.eyebrow_raise_threshold * d.eyebrow_baseline[2]

\* eyebrow_pos - eyebrow_baseline > eyebrow_raise_threshold, baseline = <<sum, len>>
EyebrowsDetected(d, s) ==
    /\ IsHeadCenteredForEyebrow(d.thresholds, s.head_tilt)
    /\ d.eyebrow_baseline # None
    /\ s.eyebrow_pos * d.eyebrow_baseline[2] - d.eyebrow_baseline[1]
         > d.thresholds.eyebrow_raise_threshold * d.eyebrow_baseline[2]

\* UpdateBaseline without the warm-up: the baseline is the mean from the first sample on.
UpdateBaseline_Eager(d, eyebrow_pos) ==
    LET h == DequeAppend(d.eyebrow_baseline_history, eyebrow_pos, BaselineHistoryMaxLen)
    IN  ResetGestureConfirmed(
            [ d EXCEPT
                !.eyebrow_baseline_history = h,
                !.eyebrow_baseline = <<Sum(h), Len(h)>> ],
            EYEBROWS_RAISED)

\* The baseline update of a gated-in sample judged not raised.
UpdateBaseline(d, eyebrow_pos) ==
    LET h == DequeAppend(d.eyebrow_baseline_history, eyebrow_pos, BaselineHistoryMaxLen)
    IN  ResetGestureConfirmed(
            [ d EXCEPT
                !.eyebrow_baseline_history = h,
                !.eyebrow_baseline =
                    IF Len(h) >= BaselineMinSamples THEN <<Sum(h), Len(h)>> ELSE @ ],
            EYEBROWS_RAISED)

\* StepEyebrow that clears the latch on every frame not judged raised, gated-in or not.
StepEyebrow_ResetWhenNotRaised(c, s, now) ==
    LET eyebrows_detected == EyebrowsDetected(c.d, s)
        c1 == [c EXCEPT !.st.head_tilt_angle = s.head_tilt,
                        !.st.eyebrow_position = s.eyebrow_pos,
                        !.st.eyebrows_raised = eyebrows_detected]
        c2 == IF IsHeadCenteredForEyebrow(c.d.thresholds, s.head_tilt) /\ ~eyebrows_detected
              THEN [c1 EXCEPT !.d = UpdateBaseline(@, s.eyebrow_pos)]
              ELSE IF ~eyebrows_detected
                   THEN [c1 EXCEPT !.d = ResetGestureConfirmed(@, EYEBROWS_RAISED)]
                   ELSE c1
        c3 == [c2 EXCEPT !.d.eyebrow_raised_history =
                             DequeAppend(@, eyebrows_detected, c.d.maxlen.eyebrow_raised)]
    IN  IF /\ All(c3.d.eyebrow_raised_history)
           /\ Len(c3.d.eyebrow_raised_history) = c3.d.thresholds.eyebrow_confirm_frames
           /\ IsGestureAvailable(c3.d, EYEBROWS_RAISED, now)
           /\ IsGestureReady(c3.d, EYEBROWS_RAISED)
        THEN Fire(c3, EYEBROWS_RAISED, now)
        ELSE c3

\* StepEyebrow that updates the baseline on every gated-in frame, raised or not.
StepEyebrow_BaselineDrifts(c, s, now) ==
    LET eyebrows_detected == EyebrowsDetected(c.d, s)
        c1 == [c EXCEPT !.st.head_tilt_angle = s.head_tilt,
                        !.st.eyebrow_position = s.eyebrow_pos,
                        !.st.eyebrows_raised = eyebrows_detected]
        c2 == IF IsHeadCenteredForEyebrow(c.d.thresholds, s.head_tilt)
              THEN [c1 EXCEPT
                      !.d.eyebrow_baseline_history =
                          DequeAppend(@, s.eyebrow_pos, BaselineHistoryMaxLen),
                      !.d.eyebrow_baseline =
                          LET h == DequeAppend(c.d.eyebrow_baseline_history, s.eyebrow_pos,
                                               BaselineHistoryMaxLen)
                          IN  IF Len(h) >= BaselineMinSamples THEN <<Sum(h), Len(h)>> ELSE @ ]
              ELSE c1
        c3 == [c2 EXCEPT !.d.eyebrow_raised_history =
                             DequeAppend(@, eyebrows_detected, c.d.maxlen.eyebrow_raised)]
    IN  IF /\ All(c3.d.eyebrow_raised_history)
           /\ Len(c3.d.eyebrow_raised_history) = c3.d.thresholds.eyebrow_confirm_frames
           /\ IsGestureAvailable(c3.d, EYEBROWS_RAISED, now)
           /\ IsGestureReady(c3.d, EYEBROWS_RAISED)
        THEN Fire(c3, EYEBROWS_RAISED, now)
        ELSE c3

StepEyebrow(c, s, now) ==
    LET eyebrows_detected == EyebrowsDetected(c.d, s)
        c1 == [c EXCEPT !.st.head_tilt_angle = s.head_tilt,
                        !.st.eyebrow_position = s.eyebrow_pos,
                        !.st.eyebrows_raised = eyebrows_detected]
        c2 == IF IsHeadCenteredForEyebrow(c.d.thresholds, s.head_tilt) /\ ~eyebrows_detected
              THEN [c1 EXCEPT !.d = UpdateBaseline(@, s.eyebrow_pos)]
              ELSE c1
        c3 == [c2 EXCEPT !.d.eyebrow_raised_history =
                             DequeAppend(@, eyebrows_detected, c.d.maxlen.eyebrow_raised)]
    IN  IF /\ All(c3.d.eyebrow_raised_history)
           /\ Len(c3.d.eyebrow_raised_history) = c3.d.thresholds.eyebrow_confirm_frames
           /\ IsGestureAvailable(c3.d, EYEBROWS_RAISED, now)
           /\ IsGestureReady(c3.d, EYEBROWS_RAISED)
        THEN Fire(c3, EYEBROWS_RAISED, now)
        ELSE c3

\* LeftDetected bounded by the tilt threshold in place of the deadzone.
LeftDetected_Threshold(th, head_tilt) ==
    head_tilt < 0 /\ head_tilt > -(180 - th.head_tilt_threshold)

LeftDetected(th, head_tilt) == head_tilt < 0 /\ head_tilt > -(180 - th.head_tilt_deadzone)

\* right_detected without the sign test: any angle outside the deadzone.
RightDetected_AnySign(th, head_tilt) ==
    head_tilt # 0 /\ Abs(head_tilt) < 180 - th.head_tilt_deadzone

RightDetected(th, head_tilt) == head_tilt > 0 /\ head_tilt < 180 - th.head_tilt_deadzone

\* StepHeadBand that clears a direction's latch when the head is in the opposite band.
StepHeadBand_ClearsOpposite(c, s) ==
    IF IsHeadCentered(c.d.thresholds, s.head_tilt)
    THEN [ c EXCEPT
             !.st.head_tilt_center = TRUE,
             !.st.head_tilt_left = FALSE,
             !.st.head_tilt_right = FALSE,
             !.d = ResetGestureConfirmed(ResetGestureConfirmed(@, HEAD_TILT_LEFT),
                                         HEAD_TILT_RIGHT) ]
    ELSE [ c EXCEPT
             !.st.head_tilt_center = FALSE,
             !.st.head_tilt_left = LeftDetected(c.d.thresholds, s.head_tilt),
             !.st.head_tilt_right = RightDetected(c.d.thresholds, s.head_tilt),
             !.d = IF RightDetected(c.d.thresholds, s.head_tilt)
                   THEN ResetGestureConfirmed(@, HEAD_TILT_LEFT)
                   ELSE IF LeftDetected(c.d.thresholds, s.head_tilt)
                        THEN ResetGestureConfirmed(@, HEAD_TILT_RIGHT)
                        ELSE @ ]

StepHeadBand(c, s) ==
    IF IsHeadCentered(c.d.thresholds, s.head_tilt)
    THEN [ c EXCEPT
             !.st.head_tilt_center = TRUE,
             !.st.head_tilt_left = FALSE,
             !.st.head_tilt_right = FALSE,
             !.d = ResetGestureConfirmed(ResetGestureConfirmed(@, HEAD_TILT_LEFT),
                                         HEAD_TILT_RIGHT) ]
    ELSE [ c EXCEPT
             !.st.head_tilt_center = FALSE,
             !.st.head_tilt_left = LeftDetected(c.d.thresholds, s.head_tilt),
             !.st.head_tilt_right = RightDetected(c.d.thresholds, s.head_tilt) ]

\* StepHeadLeft without the window-length test: fires as soon as every sample kept is true.
StepHeadLeft_NoLength(c, now) ==
    IF /\ All(c.d.head_tilt_left_history)
       /\ IsGestureAvailable(c.d, HEAD_TILT_LEFT, now)
       /\ IsGestureReady(c.d, HEAD_TILT_LEFT)
    THEN Fire(c, HEAD_TILT_LEFT, now)
    ELSE c

StepHeadLeft(c, now) ==
    IF /\ All(c.d.head_tilt_left_history)
       /\ Len(c.d.head_tilt_left_history) = c.d.thresholds.head_tilt_confirm_frames
       /\ IsGestureAvailable(c.d, HEAD_TILT_LEFT, now)
       /\ IsGestureReady(c.d, HEAD_TILT_LEFT)
    THEN Fire(c, HEAD_TILT_LEFT, now)
    ELSE c

StepHeadRight(c, now) ==
    IF /\ All(c.d.head_tilt_right_history)
       /\ Len(c.d.head_tilt_right_history) = c.d.thresholds.head_tilt_confirm_frames
       /\ IsGestureAvailable(c.d, HEAD_TILT_RIGHT, now)
       /\ IsGestureReady(c.d, HEAD_TILT_RIGHT)
    THEN Fire(c, HEAD_TILT_RIGHT, now)
    ELSE c

StepHeadTilt(c, s, now) ==
    LET c1 == StepHeadBand(c, s)
        c2 == [ c1 EXCEPT
                  !.d.head_tilt_left_history =
                      DequeAppend(@, c1.st.head_tilt_left, c.d.maxlen.head_tilt_left),
                  !.d.head_tilt_right_history =
                      DequeAppend(@, c1.st.head_tilt_right, c.d.maxlen.head_tilt_right) ]
    IN  StepHeadRight(StepHeadLeft(c2, now), now)

\* detect that treats a frame without a face as a frame with the eyes open.
DetectOp_NoFaceOpens(d, face, s, now) ==
    LET c0 == [d |-> d, st |-> DefaultState, ev |-> << >>]
    IN  IF ~face
        THEN [c0 EXCEPT !.d.eye_closed_history = DequeAppend(@, FALSE, d.maxlen.eye_closed)]
        ELSE StepHeadTilt(
                 StepEyebrow(
                     StepMouth(
                         StepLongClose(StepBlink(StepEyes(c0, s), now), now),
                         s, now),
                     s, now),
                 s, now)

\* detect that forgets the eye window when no face is found.
DetectOp_NoFaceClears(d, face, s, now) ==
    LET c0 == [d |-> d, st |-> DefaultState, ev |-> << >>]
    IN  IF ~face
        THEN [c0 EXCEPT !.d.eye_closed_history = << >>]
        ELSE StepHeadTilt(
                 StepEyebrow(
                     StepMouth(
                         StepLongClose(StepBlink(StepEyes(c0, s), now), now),
                         s, now),
                     s, now),
                 s, now)

\* detect with the eyebrow block before the mouth block.
DetectOp_BrowBeforeMouth(d, face, s, now) ==
    LET c0 == [d |-> d, st |-> DefaultState, ev |-> << >>]
    IN  IF ~face THEN c0
        ELSE StepHeadTilt(
                 StepMouth(
                     StepEyebrow(
                         StepLongClose(StepBlink(StepEyes(c0, s), now), now),
                         s, now),
                     s, now),
                 s, now)

\* detect(frame): face says whether results.multi_face_landmarks is non-empty.
DetectOp(d, face, s, now) ==
    LET c0 == [d |-> d, st |-> DefaultState, ev |-> << >>]
    IN  IF ~face THEN c0
        ELSE StepHeadTilt(
                 StepEyebrow(
                     StepMouth(
                         StepLongClose(StepBlink(StepEyes(c0, s), now), now),
                         s, now),
                     s, now),
                 s, now)

\* reset() that clears timestamps, latches, blink state and baseline but not the windows.
ResetOp_KeepsWindows(d) ==
    [ d EXCEPT
        !.last_blink_time          = 0,
        !.blink_count              = 0,
        !.eyebrow_baseline_history = << >>,
        !.eyebrow_baseline         = None,
        !.last_gesture_time        = EmptyDict,
        !.gesture_confirmed        = EmptyDict ]

\* reset()
\* reset() that empties the baseline history and keeps the baseline.
ResetOp_KeepsBaseline(d) ==
    [ d EXCEPT
        !.eye_closed_history       = << >>,
        !.mouth_open_history       = << >>,
        !.eyebrow_raised_history   = << >>,
        !.head_tilt_left_history   = << >>,
        !.head_tilt_right_history  = << >>,
        !.last_blink_time          = 0,
        !.blink_count              = 0,
        !.eyebrow_baseline_history = << >>,
        !.last_gesture_time        = EmptyDict,
        !.gesture_confirmed        = EmptyDict ]

ResetOp(d) ==
    [ d EXCEPT
        !.eye_closed_history       = << >>,
        !.mouth_open_history       = << >>,
        !.eyebrow_raised_history   = << >>,
        !.head_tilt_left_history   = << >>,
        !.head_tilt_right_history  = << >>,
        !.last_blink_time          = 0,
        !.blink_count              = 0,
        !.eyebrow_baseline_history = << >>,
        !.eyebrow_baseline         = None,
        !.last_gesture_time        = EmptyDict,
        !.gesture_confirmed        = EmptyDict ]

\* update_thresholds that also gives the windows the capacities of the new configuration.
UpdateThresholdsOp_Resize(d, thresholds) ==
    [ d EXCEPT
        !.thresholds = thresholds,
        !.maxlen = NewDetector(thresholds).maxlen ]

\* update_thresholds(thresholds)
UpdateThresholdsOp(d, thresholds) == [d EXCEPT !.thresholds = thresholds]

----------------------------------------------------------------------------
(* Feature samples handed to detect *)

\* Samples are placed relative to the default thresholds they are compared with.
EarOpen == DefaultEyeArThreshold + 10
EarClosed == DefaultEyeArThreshold - 10
MouthArClosed == DefaultMouthArThreshold - 20
MouthArOpen == DefaultMouthArThreshold + 20
EyebrowHigh == DefaultEyebrowRaiseThreshold + 10
\* inside the left / right band and inside the eyebrow gate (-170, 170 by default)
AngleLeft == -(180 - DefaultHeadTiltDeadzone - 3)
AngleRight == 180 - DefaultHeadTiltDeadzone - 3
\* inside the left band and outside the eyebrow gate (-160 by default)
AngleTiltedLeft == -(180 - DefaultHeadTiltThreshold - 5)

\* Upright face at rest: eyes open, mouth closed, eyebrows at rest, head centered.
Neutral ==
    [ left_ear |-> EarOpen, right_ear |-> EarOpen, mouth_ar |-> MouthArClosed,
      eyebrow_pos |-> 0, head_tilt |-> 180 ]

\* The same face with the head in no band: not centered, not left, not right, and
\* outside the eyebrow gate, so the head and eyebrow channels see only false samples.
Idle == [Neutral EXCEPT !.head_tilt = 0]

EyeSamples == {Idle, [Idle EXCEPT !.left_ear = EarClosed, !.right_ear = EarClosed]}

----------------------------------------------------------------------------
(* Observer: what a test harness watching the calls would record *)

\* Ticks explored after the start, and the clock's reading at the start.
MaxTime == 6
StartTime == 100

Min(a, b) == IF a < b THEN a ELSE b

Count(q, x) == Cardinality({i \in 1..Len(q) : q[i] = x})

\* The level condition of a level-triggered channel, as the snapshot reports it.
Condition(st, g) ==
    CASE g = MOUTH_OPEN      -> st.mouth_open
      [] g = EYEBROWS_RAISED -> st.eyebrows_raised
      [] g = HEAD_TILT_LEFT  -> st.head_tilt_left
      [] g = HEAD_TILT_RIGHT -> st.head_tilt_right

RunCap(d) ==
    (IF d.maxlen.eye_closed > d.thresholds.long_close_frames
     THEN d.maxlen.eye_closed ELSE d.thresholds.long_close_frames) + 1

\* Whether the observer has seen gesture g leave its cooldown (or never fire).
Elapsed(o, th, g, now) ==
    g \notin DOMAIN o.lastEmit \/ now - o.lastEmit[g] >= th.gesture_cooldown

\* The return-to-neutral observation of a level-triggered channel.
NeutralSeen(st, th, g) ==
    CASE g = MOUTH_OPEN      -> ~st.mouth_open
      [] g = EYEBROWS_RAISED -> IsHeadCenteredForEyebrow(th, st.head_tilt_angle)
                                /\ ~st.eyebrows_raised
      [] g = HEAD_TILT_LEFT  -> st.head_tilt_center
      [] g = HEAD_TILT_RIGHT -> st.head_tilt_center

\* The window length configured for a level-triggered channel.
ConfirmLen(th, g) ==
    CASE g = MOUTH_OPEN      -> th.mouth_confirm_frames
      [] g = EYEBROWS_RAISED -> th.eyebrow_confirm_frames
      [] g = HEAD_TILT_LEFT  -> th.head_tilt_confirm_frames
      [] g = HEAD_TILT_RIGHT -> th.head_tilt_confirm_frames

NewObs ==
    [ lastEmit  |-> EmptyDict,                    \* time of each gesture's last event since reset
      emits     |-> [g \in Gestures |-> 0],       \* events of each gesture since reset (0, 1, 2 = more)
      runEmits  |-> [g \in LevelGestures |-> 0],  \* a channel's events in its current run of true frames
      trueRun   |-> [g \in LevelGestures |-> 0],  \* length of a channel's current run of true frames
      armed     |-> [g \in LevelGestures |-> TRUE], \* neutral seen since the channel's last event
      closedRun |-> 0,                            \* eyes-closed face frames in a row, since reset
      nFrames   |-> 0,                            \* face frames since reset
      nEligible |-> 0,                            \* gated-in face frames since reset
      pending   |-> << >>,                        \* <<t>>: a first blink seen at t awaits its second
      twinSame  |-> TRUE ]                        \* the twin has answered every call alike

\* The observer's record after detect(s) at time now answered r on detector d.
ObserveDetect(o, d, s, r, now, same) ==
    IF ~r.st.face_detected THEN [o EXCEPT !.twinSame = @ /\ same]
    ELSE
    [ lastEmit  |-> [g \in (DOMAIN o.lastEmit) \cup {r.ev[i] : i \in 1..Len(r.ev)} |->
                        IF Count(r.ev, g) > 0 THEN now ELSE o.lastEmit[g]],
      emits     |-> [g \in Gestures |-> Min(2, o.emits[g] + Count(r.ev, g))],
      runEmits  |-> [g \in LevelGestures |->
                        IF Condition(r.st, g)
                        THEN Min(2, o.runEmits[g] + Count(r.ev, g))
                        ELSE 0],
      trueRun   |-> [g \in LevelGestures |->
                        IF Condition(r.st, g)
                        THEN Min(ConfirmLen(d.thresholds, g) + 1, o.trueRun[g] + 1)
                        ELSE 0],
      armed     |-> [g \in LevelGestures |->
                        IF Count(r.ev, g) > 0 THEN FALSE
                        ELSE IF NeutralSeen(r.st, d.thresholds, g) THEN TRUE
                        ELSE o.armed[g]],
      closedRun |-> IF r.st.eyes_closed THEN Min(RunCap(d), o.closedRun + 1) ELSE 0,
      nFrames   |-> Min(RunCap(d), o.nFrames + 1),
      nEligible |-> IF IsHeadCenteredForEyebrow(d.thresholds, s.head_tilt)
                    THEN Min(BaselineMinSamples + 2, o.nEligible + 1)
                    ELSE o.nEligible,
      pending   |-> IF o.closedRun > 0 /\ ~r.st.eyes_closed
                    THEN IF d.blink_count = 0 /\ Elapsed(o, d.thresholds, DOUBLE_BLINK, now)
                         THEN <<now>>
                         ELSE << >>
                    ELSE o.pending,
      twinSame  |-> o.twinSame /\ same ]

ObserveReset(o) == NewObs

----------------------------------------------------------------------------
(* Aspect ratios: _calculate_eye_aspect_ratio, _calculate_mouth_aspect_ratio *)

\* Landmarks lie on a grid of (GridMax + 1) x (GridMax + 1) points.
GridMax == 1

Points == (0..GridMax) \X (0..GridMax)

\* np.linalg.norm(p - q), squared
Norm2(p, q) == (p[1] - q[1]) * (p[1] - q[1]) + (p[2] - q[2]) * (p[2] - q[2])

\* The largest r with r * r <= n
Isqrt(n) == CHOOSE r \in 0..n : r * r <= n /\ (r + 1) * (r + 1) > n

\* What a division by zero leaves in place of a ratio.
DivisionFailed == 0 - 1

\* vertical / horizontal in hundredths, rounded down, from the squared distances.
Divide(vertical2, horizontal2) ==
    IF horizontal2 = 0 THEN DivisionFailed
    ELSE Isqrt((10000 * vertical2) \div horizontal2)

\* _calculate_eye_aspect_ratio without the guard on the horizontal distance.
EyeAspectRatio_Unguarded(top, bottom, left, right) ==
    Divide(Norm2(top, bottom), Norm2(left, right))

\* _calculate_eye_aspect_ratio(landmarks, top, bottom, left, right)
EyeAspectRatio(top, bottom, left, right) ==
    LET vertical2   == Norm2(top, bottom)
        horizontal2 == Norm2(left, right)
    IN  IF horizontal2 > 0 THEN Divide(vertical2, horizontal2) ELSE 0

\* _calculate_mouth_aspect_ratio(landmarks), on MOUTH_TOP, MOUTH_BOTTOM, MOUTH_LEFT, MOUTH_RIGHT
MouthAspectRatio(top, bottom, left, right) ==
    LET vertical2   == Norm2(top, bottom)
        horizontal2 == Norm2(left, right)
    IN  IF horizontal2 > 0 THEN Divide(vertical2, horizontal2) ELSE 0

NoLandmarks ==
    [ of |-> "none", top |-> <<0, 0>>, bottom |-> <<0, 0>>, left |-> <<0, 0>>,
      right |-> <<0, 0>>, ratio |-> 0 ]

\* One eye of the frame is measured.
MeasureEye ==
    /\ landmarks.of = "none"
    /\ \E top, bottom, left, right \in Points :
          landmarks' = [ of |-> "eye", top |-> top, bottom |-> bottom, left |-> left,
                         right |-> right,
                         ratio |-> EyeAspectRatio(top, bottom, left, right) ]
    /\ UNCHANGED <<detector, clock, state, events, op, obs, twin, session, server>>

\* The mouth of the frame is measured.
MeasureMouth ==
    /\ landmarks.of = "none"
    /\ \E top, bottom, left, right \in Points :
          landmarks' = [ of |-> "mouth", top |-> top, bottom |-> bottom, left |-> left,
                         right |-> right,
                         ratio |-> MouthAspectRatio(top, bottom, left, right) ]
    /\ UNCHANGED <<detector, clock, state, events, op, obs, twin, session, server>>

----------------------------------------------------------------------------
(* Web application: src/web/app.py and src/web/websocket_handler.py *)

\* Connections the server accepts at the same time.
MaxConns == 2

Conns == 1..MaxConns

\* load_thresholds(): the configuration file's thresholds, or the defaults without one.
LoadThresholds == SmallThresholds

\* GestureWebSocketHandler(thresholds)
NewHandler(thresholds) ==
    [ detector     |-> NewDetector(thresholds),
      websocket    |-> None,
      is_connected |-> FALSE ]

\* The handler object created when the module is imported (gesture_handler).
ModuleHandler == 0

\* The application after import: one handler object, no connection. heap maps object
\* identities to handler objects; conn maps a connection to <<its handler's identity>>;
\* last is <<connection, message type>> of the last message the server sent (an error
\* message carries its code as well); recv is <<connection, kind>> of the last thing
\* the server received from a connection.
ServerStart ==
    [ heap |-> DictPut(EmptyDict, ModuleHandler, NewHandler(LoadThresholds)),
      conn |-> [c \in Conns |-> None],
      last |-> << >>,
      recv |-> << >> ]

\* websocket_route that serves every connection with the module's handler object.
WebsocketRoute_Module(srv, c) == [srv EXCEPT !.conn[c] = <<ModuleHandler>>]

\* websocket_route: handler = GestureWebSocketHandler(load_thresholds()), a new object.
WebsocketRoute(srv, c) ==
    LET id == CHOOSE i \in 1..MaxConns : i \notin DOMAIN srv.heap
    IN  [ srv EXCEPT
            !.heap = DictPut(@, id, NewHandler(LoadThresholds)),
            !.conn[c] = <<id>> ]

\* The handler of connection c.
HandlerOf(srv, c) == srv.heap[srv.conn[c][1]]

\* websocket_route up to the "connected" message: new handler, handler.connect(websocket).
Connect(c) ==
    /\ server.conn[c] = None
    /\ LET srv == WebsocketRoute(server, c)
           id  == srv.conn[c][1]
       IN  server' = [ srv EXCEPT
                         !.heap[id].websocket = <<c>>,
                         !.heap[id].is_connected = TRUE,
                         !.last = <<c, "connected">>,
                         !.recv = <<c, "connect">> ]
    /\ UNCHANGED <<detector, clock, state, events, op, obs, twin, session, landmarks>>

\* The face_state response process_frame builds from the snapshot; gesture is << >>
\* when the key is absent.
FaceStateResponse(st) ==
    [ type    |-> "face_state",
      payload |-> [ face_detected    |-> st.face_detected,
                    eyes_closed      |-> st.eyes_closed,
                    left_eye_ar      |-> st.left_eye_ar,
                    right_eye_ar     |-> st.right_eye_ar,
                    mouth_open       |-> st.mouth_open,
                    mouth_ar         |-> st.mouth_ar,
                    eyebrows_raised  |-> st.eyebrows_raised,
                    eyebrow_position |-> st.eyebrow_position,
                    head_tilt_angle  |-> st.head_tilt_angle,
                    head_tilt_left   |-> st.head_tilt_left,
                    head_tilt_right  |-> st.head_tilt_right,
                    head_tilt_center |-> st.head_tilt_center ],
      gesture |-> IF st.detected_gesture # NONE
                  THEN <<[type |-> st.detected_gesture]>>
                  ELSE << >> ]

\* A "frame" message that decodes: process_frame calls detect.
FrameMsg(c, face, s) ==
    /\ server.conn[c] # None
    /\ LET id == server.conn[c][1]
           r  == DetectOp(server.heap[id].detector, face, s, clock)
       IN  server' = [ server EXCEPT
                         !.heap[id].detector = r.d,
                         !.last = <<c, FaceStateResponse(r.st).type>>,
                         !.recv = <<c, "frame">> ]
    /\ UNCHANGED <<detector, clock, state, events, op, obs, twin, session, landmarks>>

\* A "frame" message whose data does not decode: DECODE_ERROR, the detector is not called.
BadFrameMsg(c) ==
    /\ server.conn[c] # None
    /\ server' = [ server EXCEPT
                      !.last = <<c, "error", "DECODE_ERROR">>,
                      !.recv = <<c, "frame_undecodable">> ]
    /\ UNCHANGED <<detector, clock, state, events, op, obs, twin, session, landmarks>>

\* Text that is not JSON, handled as if the receive had failed: the connection ends.
InvalidJsonMsg_Disconnects(c) ==
    /\ server.conn[c] # None
    /\ LET id == server.conn[c][1]
       IN  server' = [ server EXCEPT
                         !.heap[id].is_connected = FALSE,
                         !.heap[id].websocket = None,
                         !.heap[id].detector = ResetOp(@),
                         !.last = <<c, "error", "INVALID_JSON">>,
                         !.recv = <<c, "invalid_json">> ]
    /\ UNCHANGED <<detector, clock, state, events, op, obs, twin, session, landmarks>>

\* Text that is not JSON: websocket_endpoint sends INVALID_JSON and goes on receiving.
InvalidJsonMsg(c) ==
    /\ server.conn[c] # None
    /\ server' = [ server EXCEPT
                      !.last = <<c, "error", "INVALID_JSON">>,
                      !.recv = <<c, "invalid_json">> ]
    /\ UNCHANGED <<detector, clock, state, events, op, obs, twin, session, landmarks>>

\* A message of unknown type answered with an error message.
OtherMsg_Error(c) ==
    /\ server.conn[c] # None
    /\ server' = [ server EXCEPT
                      !.last = <<c, "error", "UNKNOWN_TYPE">>,
                      !.recv = <<c, "other">> ]
    /\ UNCHANGED <<detector, clock, state, events, op, obs, twin, session, landmarks>>

\* A message whose type is none of "frame", "ping", "reset": handle_message returns
\* None and nothing is sent.
OtherMsg(c) ==
    /\ server.conn[c] # None
    /\ server' = [server EXCEPT !.recv = <<c, "other">>]
    /\ UNCHANGED <<detector, clock, state, events, op, obs, twin, session, landmarks>>

\* A "ping" message.
PingMsg(c) ==
    /\ server.conn[c] # None
    /\ server' = [server EXCEPT !.last = <<c, "pong">>, !.recv = <<c, "ping">>]
    /\ UNCHANGED <<detector, clock, state, events, op, obs, twin, session, landmarks>>

\* A "reset" message.
ResetMsg(c) ==
    /\ server.conn[c] # None
    /\ LET id == server.conn[c][1]
       IN  server' = [ server EXCEPT
                         !.heap[id].detector = ResetOp(@),
                         !.last = <<c, "reset_complete">>,
                         !.recv = <<c, "reset">> ]
    /\ UNCHANGED <<detector, clock, state, events, op, obs, twin, session, landmarks>>

\* WebSocketDisconnect: handler.disconnect(), then handler.close() as the route returns;
\* a handler object no connection and no module variable refers to is gone.
Disconnect(c) ==
    /\ server.conn[c] # None
    /\ LET id   == server.conn[c][1]
           srv  == [ server EXCEPT
                       !.heap[id].is_connected = FALSE,
                       !.heap[id].websocket = None,
                       !.heap[id].detector = ResetOp(@),
                       !.conn[c] = None,
                       !.last = <<c, "disconnect">>,
                       !.recv = <<c, "disconnect">> ]
           live == {ModuleHandler} \cup {srv.conn[d][1] : d \in {e \in Conns : srv.conn[e] # None}}
       IN  server' = [srv EXCEPT !.heap = [i \in live |-> srv.heap[i]]]
    /\ UNCHANGED <<detector, clock, state, events, op, obs, twin, session, landmarks>>

----------------------------------------------------------------------------
(* Operations *)

InitWith(thresholds, sessions) ==
    /\ session \in sessions
    /\ detector = NewDetector(thresholds)
    /\ clock = StartTime
    /\ state = DefaultState
    /\ events = << >>
    /\ op = "init"
    /\ obs = NewObs
    /\ twin = << >>
    /\ server = ServerStart
    /\ landmarks = NoLandmarks

Detect(face, s) ==
    LET r    == DetectOp(detector, face, s, clock)
        r2   == DetectOp(twin[1], face, s, clock)
        same == twin = << >> \/ (r2.st = r.st /\ r2.ev = r.ev)
    IN  /\ detector' = r.d
        /\ state' = r.st
        /\ events' = r.ev
        /\ op' = "detect"
        /\ obs' = ObserveDetect(obs, detector, s, r, clock, same)
        /\ twin' = IF twin = << >> \/ ~same THEN << >> ELSE <<r2.d>>
        /\ UNCHANGED <<clock, session, server, landmarks>>

DetectFace == \E s \in session : Detect(TRUE, s)

DetectNoFace == Detect(FALSE, Idle)

Reset ==
    /\ detector' = ResetOp(detector)
    /\ op' = "reset"
    /\ obs' = ObserveReset(obs)
    /\ twin' = <<NewDetector(detector.thresholds)>>
    /\ UNCHANGED <<clock, state, events, session, server, landmarks>>

UpdateThresholds(thresholds) ==
    /\ detector' = UpdateThresholdsOp(detector, thresholds)
    /\ op' = "update_thresholds"
    /\ twin' = IF twin = << >> THEN twin ELSE <<UpdateThresholdsOp(twin[1], thresholds)>>
    /\ UNCHANGED <<clock, state, events, obs, session, server, landmarks>>

\* Time passes between calls, up to limit ticks after the start.
Advance(limit) ==
    /\ clock < StartTime + limit
    /\ clock' = clock + 1
    /\ UNCHANGED <<detector, state, events, op, obs, twin, session, server, landmarks>>

Tick == Advance(MaxTime)

\* A session after one more detect call on sample s at the start time.
FedOnce(p, s) ==
    LET r == DetectOp(p.d, TRUE, s, StartTime)
    IN  [ d  |-> r.d,
          o  |-> ObserveDetect(p.o, p.d, s, r, StartTime, TRUE),
          st |-> r.st,
          ev |-> r.ev ]

RECURSIVE FedFrom(_, _, _)
FedFrom(p, s, k) ==
    IF k = 0 THEN p
    ELSE LET q == FedOnce(p, s)
         IN  IF q.st.face_detected THEN FedFrom(q, s, k - 1) ELSE q

\* The detector, its observer and its last answer after k detect calls on sample s
\* at the start time, from construction with the given thresholds.
Fed(thresholds, s, k) ==
    FedFrom([d |-> NewDetector(thresholds), o |-> NewObs, st |-> DefaultState, ev |-> << >>],
            s, k)

\* A session that has watched the neutral face until the eyebrow baseline history is full.
InitCalibrated(thresholds, sessions) ==
    LET f == Fed(thresholds, Neutral, BaselineHistoryMaxLen)
    IN  /\ session \in sessions
        /\ detector = f.d
        /\ clock = StartTime
        /\ state = f.st
        /\ events = f.ev
        /\ op = "detect"
        /\ obs = f.o
        /\ twin = << >>
        /\ server = ServerStart
        /\ landmarks = NoLandmarks

----------------------------------------------------------------------------
(* Specifications *)

\* Eyes: blink and long-close channels, fixed configuration.
InitEye == InitWith(SmallThresholds, {EyeSamples})

NextEye ==
    \/ DetectFace
    \/ DetectNoFace
    \/ Reset
    \/ Tick

SpecEye == InitEye /\ [][NextEye]_vars

\* All six channels, fixed configuration, from a calibrated session in which the face
\* moves one part (eyes, mouth, eyebrows, head), or mouth, eyebrows and head together.
EyeSession == {Neutral, [Neutral EXCEPT !.left_ear = EarClosed, !.right_ear = EarClosed]}

MouthSession == {Neutral, [Neutral EXCEPT !.mouth_ar = MouthArOpen]}

BrowSession ==
    { [Neutral EXCEPT !.eyebrow_pos = e, !.head_tilt = a] :
        e \in {0, EyebrowHigh}, a \in {180, AngleTiltedLeft} }

HeadSession == {[Neutral EXCEPT !.head_tilt = a] : a \in {180, AngleLeft, AngleRight}}

AllSession ==
    { Neutral,
      [Neutral EXCEPT !.mouth_ar = MouthArOpen, !.eyebrow_pos = EyebrowHigh,
                      !.head_tilt = AngleLeft] }

InitChannels ==
    InitCalibrated(SmallThresholds,
                   {EyeSession, MouthSession, BrowSession, HeadSession, AllSession})

NextChannels ==
    \/ DetectFace
    \/ DetectNoFace
    \/ Tick

SpecChannels == InitChannels /\ [][NextChannels]_vars

\* Eyes, with the configuration replaced between calls.
Init == InitWith(SmallThresholds, {EyeSamples})

Reconfigure == \E thresholds \in {SmallThresholds, OtherThresholds} : UpdateThresholds(thresholds)

\* Time passes for as long as the longer of the two cooldowns.
Wait == Advance(OtherThresholds.gesture_cooldown)

Next ==
    \/ DetectFace
    \/ DetectNoFace
    \/ Reset
    \/ Reconfigure
    \/ Wait

Spec == Init /\ [][Next]_vars

\* Eyebrows from construction or reset, until one sample past the baseline warm-up:
\* the upright face with the eyebrows at rest or high, and the face turned out of the gate.
WarmSession == {Neutral, [Neutral EXCEPT !.eyebrow_pos = EyebrowHigh], Idle}

InitWarm == InitWith(SmallThresholds, {WarmSession})

DetectWarm == obs.nEligible <= BaselineMinSamples /\ DetectFace

NextWarm ==
    \/ DetectWarm
    \/ DetectNoFace
    \/ Reset

SpecWarm == InitWarm /\ [][NextWarm]_vars

\* A held closure under the default thresholds: every face frame has the eyes closed.
HoldSession == {[Idle EXCEPT !.left_ear = EarClosed, !.right_ear = EarClosed]}

InitHold == InitWith(DefaultThresholds, {HoldSession})

NextHold ==
    \/ DetectFace
    \/ DetectNoFace
    \/ Tick

SpecHold == InitHold /\ [][NextHold]_vars

\* Head tilt under the default thresholds, from construction or reset until one frame
\* past the confirm window: centered, inside the left and right bands, on the deadzone
\* boundary on either side, and level (angle 0).
AngleEdge == 180 - DefaultHeadTiltDeadzone

TiltAngles == {180, AngleLeft, AngleRight, -AngleEdge, AngleEdge, 0}

TiltSession == {[Neutral EXCEPT !.head_tilt = a] : a \in TiltAngles}

InitTilt == InitWith(DefaultThresholds, {TiltSession})

DetectFirst == obs.nFrames <= DefaultHeadTiltConfirmFrames /\ DetectFace

NextTilt ==
    \/ DetectFirst
    \/ DetectNoFace
    \/ Reset

SpecTilt == InitTilt /\ [][NextTilt]_vars

\* The web application: connections open and close, and send frames (a face with the
\* eyes closed, no face, or undecodable), pings and resets, in any interleaving.
InitServer == InitWith(SmallThresholds, {HoldSession})

NextServer ==
    \E c \in Conns :
        \/ Connect(c)
        \/ \E face \in BOOLEAN, s \in session : FrameMsg(c, face, s)
        \/ BadFrameMsg(c)
        \/ InvalidJsonMsg(c)
        \/ OtherMsg(c)
        \/ PingMsg(c)
        \/ ResetMsg(c)
        \/ Disconnect(c)

SpecServer == InitServer /\ [][NextServer]_vars

\* Mouth and head moving independently, fixed configuration, from a calibrated session.
MouthHeadSession ==
    { [Neutral EXCEPT !.mouth_ar = m, !.head_tilt = a] :
        m \in {MouthArClosed, MouthArOpen}, a \in {180, AngleLeft} }

InitMouth == InitCalibrated(SmallThresholds, {MouthHeadSession})

NextMouth ==
    \/ DetectFace
    \/ DetectNoFace
    \/ Tick

SpecMouth == InitMouth /\ [][NextMouth]_vars

\* The aspect ratios of every placement of the four landmarks on the grid.
InitRatio == InitWith(DefaultThresholds, {EyeSamples})

NextRatio ==
    \/ MeasureEye
    \/ MeasureMouth

SpecRatio == InitRatio /\ [][NextRatio]_vars

\* All six channels as in SpecChannels, with reset() at any point; after a reset the
\* session goes on until one frame past the longest window.
InitRefill ==
    InitCalibrated(SmallThresholds,
                   {EyeSession, MouthSession, BrowSession, HeadSession, AllSession})

\* Whether reset() has been called: a twin runs alongside, or ran and answered otherwise.
SinceReset == twin # << >> \/ ~obs.twinSame

DetectRefill == (~SinceReset \/ obs.nFrames < RunCap(detector)) /\ DetectFace

NextRefill ==
    \/ DetectRefill
    \/ DetectNoFace
    \/ Reset
    \/ Tick

SpecRefill == InitRefill /\ [][NextRefill]_vars

\* Blink timing under the default interval (0.8 s) and cooldown (0.5 s): eye samples
\* only, a short eye window, the clock running for BlinkTime ticks of 0.1 s.
BlinkTime == 15

BlinkThresholds == [DefaultThresholds EXCEPT !.long_close_frames = LongFrames]

InitBlink == InitWith(BlinkThresholds, {EyeSamples})

TickBlink == Advance(BlinkTime)

NextBlink ==
    \/ DetectFace
    \/ TickBlink

SpecBlink == InitBlink /\ [][NextBlink]_vars

\* Face loss: the twin is a second detector of the same configuration that is given
\* the face frames only, each at the time the detector is given it; the frames on
\* which no face is found go to the detector alone.
InitLoss ==
    /\ session = EyeSamples
    /\ detector = NewDetector(SmallThresholds)
    /\ clock = StartTime
    /\ state = DefaultState
    /\ events = << >>
    /\ op = "init"
    /\ obs = NewObs
    /\ twin = <<NewDetector(SmallThresholds)>>
    /\ server = ServerStart
    /\ landmarks = NoLandmarks

LostFrame ==
    LET r == DetectOp(detector, FALSE, Idle, clock)
    IN  /\ detector' = r.d
        /\ state' = r.st
        /\ events' = r.ev
        /\ op' = "detect"
        /\ obs' = ObserveDetect(obs, detector, Idle, r, clock, TRUE)
        /\ UNCHANGED <<clock, twin, session, server, landmarks>>

NextLoss ==
    \/ DetectFace
    \/ LostFrame
    \/ Tick

SpecLoss == InitLoss /\ [][NextLoss]_vars

\* Stale capacities: a detector constructed with SmallThresholds is given other
\* configurations by update_thresholds, with window lengths below and above the
\* lengths it was constructed with, and is reset; eyes or mouth move, the head is idle.
LongThresholds ==
    [ SmallThresholds EXCEPT
        !.long_close_frames    = LongFrames + 1,
        !.mouth_confirm_frames = ConfirmFrames - 1 ]

StaleMouthSession == {Idle, [Idle EXCEPT !.mouth_ar = MouthArOpen]}

InitStale == InitWith(SmallThresholds, {EyeSamples, StaleMouthSession})

ReconfigureStale ==
    \E thresholds \in {SmallThresholds, OtherThresholds, LongThresholds} :
        UpdateThresholds(thresholds)

NextStale ==
    \/ DetectFace
    \/ Reset
    \/ ReconfigureStale
    \/ Wait

SpecStale == InitStale /\ [][NextStale]_vars

\* Every channel at once: the eyes close on their own or together with an open mouth,
\* high eyebrows and a head tilted to the right, from a calibrated session; or the
\* head alone moves between the center and the two bands.
FourSession ==
    { Neutral,
      [Neutral EXCEPT !.left_ear = EarClosed, !.right_ear = EarClosed],
      [Neutral EXCEPT !.left_ear = EarClosed, !.right_ear = EarClosed,
                      !.mouth_ar = MouthArOpen, !.eyebrow_pos = EyebrowHigh,
                      !.head_tilt = AngleRight] }

InitFour == InitCalibrated(SmallThresholds, {FourSession, HeadSession})

WaitFour == Advance(SmallThresholds.gesture_cooldown)

NextFour ==
    \/ DetectFace
    \/ WaitFour

SpecFour == InitFour /\ [][NextFour]_vars

\* The eyebrow baseline around its two limits: the session has watched between 0 and
\* 30 frames with the eyebrows slightly up, then a few frames with the eyebrows at
\* rest, slightly up or high, head centered or turned away, and resets.
EyebrowLow == DefaultEyebrowRaiseThreshold - 10

BaselineSession ==
    {[Neutral EXCEPT !.eyebrow_pos = e] : e \in {0, EyebrowLow, EyebrowHigh}} \cup {Idle}

InitBaseline ==
    \E k \in 0..BaselineHistoryMaxLen :
        LET f == Fed(SmallThresholds, [Neutral EXCEPT !.eyebrow_pos = EyebrowLow], k)
        IN  /\ session = BaselineSession
            /\ detector = f.d
            /\ clock = StartTime
            /\ state = f.st
            /\ events = f.ev
            /\ op = IF k = 0 THEN "init" ELSE "detect"
            /\ obs = [f.o EXCEPT !.nFrames = 0]     \* frames are counted from here on
            /\ twin = << >>
            /\ server = ServerStart
            /\ landmarks = NoLandmarks

DetectBaseline == obs.nFrames < RunCap(detector) /\ DetectFace

NextBaseline ==
    \/ DetectBaseline
    \/ Reset

SpecBaseline == InitBaseline /\ [][NextBaseline]_vars

----------------------------------------------------------------------------
(* Properties *)

\* A step taken by a detect call (Tick moves the clock, reset and update set op).
DetectStep == op' = "detect" /\ clock' = clock

\* A step taken by a detect call that found a face.
FaceStep == DetectStep /\ state'.face_detected

\* A detect call that sees the eyes open on the face frame after a closed one.
BlinkSeen == DetectStep /\ state'.face_detected /\ ~state'.eyes_closed /\ obs.closedRun > 0

\* C1: after a first blink taken with no sequence pending and DOUBLE_BLINK out of
\* cooldown, the next blink emits exactly one DOUBLE_BLINK if it comes less than
\* double_blink_interval later and none if it comes more than that later; no frame
\* between the two blinks emits DOUBLE_BLINK.
C1_DoubleBlinkPair ==
    [][ (DetectStep /\ obs.pending # << >>) =>
          LET gap == clock - obs.pending[1]
              interval == detector.thresholds.double_blink_interval
          IN  /\ (BlinkSeen /\ gap < interval) =>
                    (Count(events', DOUBLE_BLINK) = 1 /\ state'.detected_gesture = DOUBLE_BLINK)
              /\ (BlinkSeen /\ gap > interval) => Count(events', DOUBLE_BLINK) = 0
              /\ ~BlinkSeen => Count(events', DOUBLE_BLINK) = 0 ]_vars

C1_Witness ==
    /\ op = "detect"
    /\ events = <<DOUBLE_BLINK>>
    /\ obs.pending = << >>
    /\ obs.lastEmit[DOUBLE_BLINK] = clock

\* C3: LONG_CLOSE is emitted only by a frame that ends a run of at least
\* long_close_frames eyes-closed face frames, and when the first long_close_frames
\* frames of a fresh detector are all eyes-closed the last of them emits it once.
C3_LongCloseRun ==
    (op = "detect" /\ state.face_detected) =>
        LET n == detector.thresholds.long_close_frames
        IN  /\ Count(events, LONG_CLOSE) > 0 => obs.closedRun >= n
            /\ (obs.nFrames = n /\ obs.closedRun = n) => Count(events, LONG_CLOSE) = 1

C3_Witness ==
    /\ op = "detect"
    /\ obs.nFrames = detector.thresholds.long_close_frames
    /\ obs.closedRun = detector.thresholds.long_close_frames
    /\ events = <<LONG_CLOSE>>

\* C2: in a run of face frames on which a level-triggered channel's condition is
\* true, the gesture is emitted at most once, however long the run and whatever the
\* cooldown; it is emitted on the frame the run reaches the confirm length when the
\* gesture is out of cooldown and neutral was seen since its last event; and it is
\* emitted only if neutral was seen since its last event.
C2_OncePerRun ==
    [][ (DetectStep /\ state'.face_detected) =>
          \A g \in LevelGestures :
            /\ obs'.runEmits[g] <= 1
            /\ ( /\ obs'.trueRun[g] = ConfirmLen(detector.thresholds, g)
                 /\ Elapsed(obs, detector.thresholds, g, clock)
                 /\ obs.armed[g] ) => Count(events', g) = 1
            /\ Count(events', g) > 0 => obs.armed[g] ]_vars

\* A held pose that fired once, is still held past the window and past the cooldown.
C2_Witness ==
    \E g \in LevelGestures :
        /\ op = "detect"
        /\ Condition(state, g)
        /\ obs.runEmits[g] = 1
        /\ obs.trueRun[g] > ConfirmLen(detector.thresholds, g)
        /\ events = << >>
        /\ clock - obs.lastEmit[g] > detector.thresholds.gesture_cooldown

\* A frame on which gesture g's episode is complete, cooldown aside.
Qualifies(g) ==
    CASE g = DOUBLE_BLINK ->
            /\ BlinkSeen
            /\ obs.pending # << >>
            /\ clock - obs.pending[1] < detector.thresholds.double_blink_interval
      [] g = LONG_CLOSE ->
            /\ FaceStep
            /\ obs'.closedRun >= detector.thresholds.long_close_frames
      [] OTHER ->
            /\ FaceStep
            /\ obs'.trueRun[g] >= ConfirmLen(detector.thresholds, g)
            /\ obs.armed[g]

\* C4: for every gesture, a second qualifying episode is not emitted when it comes
\* less than gesture_cooldown after the first emission (a blink in the cooldown
\* emits nothing), and is emitted, once, when it comes more than gesture_cooldown after.
C4_SecondEpisode ==
    [][ \A g \in Gestures :
          (DetectStep /\ g \in DOMAIN obs.lastEmit) =>
            LET since == clock - obs.lastEmit[g]
                cooldown == detector.thresholds.gesture_cooldown
            IN  /\ (since < cooldown) => Count(events', g) = 0
                /\ (Qualifies(g) /\ since > cooldown) =>
                      (Count(events', g) = 1 /\ obs'.emits[g] = 2) ]_vars

C4_Witness ==
    /\ op = "detect"
    /\ \A g \in {MOUTH_OPEN, EYEBROWS_RAISED, HEAD_TILT_LEFT} :
          Count(events, g) = 1 /\ obs.emits[g] = 2

\* C5: a gesture is available exactly when it has not fired since construction or
\* reset, or at least gesture_cooldown has elapsed since it fired; two successive
\* events of one gesture are at least gesture_cooldown apart.
C5_Cooldown ==
    [][ \A g \in Gestures :
          /\ IsGestureAvailable(detector', g, clock')
               <=> Elapsed(obs', detector'.thresholds, g, clock')
          /\ (DetectStep /\ Count(events', g) > 0 /\ g \in DOMAIN obs.lastEmit) =>
                clock - obs.lastEmit[g] >= detector.thresholds.gesture_cooldown ]_vars

\* A second event exactly gesture_cooldown after the first, with the latch of a
\* level-triggered channel re-armed in between.
C5_Witness ==
    \E g \in Gestures :
        /\ op = "detect"
        /\ Count(events, g) = 1
        /\ obs.emits[g] = 2
        /\ obs.lastEmit[g] = StartTime + detector.thresholds.gesture_cooldown

\* C7: a detect call without a face answers the default snapshot, makes no callback
\* and leaves the detector as it was.
C7_NoFace ==
    [][ (DetectStep /\ ~state'.face_detected) =>
          /\ ~state'.eyes_closed /\ ~state'.mouth_open /\ ~state'.eyebrows_raised
          /\ ~state'.head_tilt_left /\ ~state'.head_tilt_right /\ state'.head_tilt_center
          /\ state'.detected_gesture = NONE
          /\ events' = << >>
          /\ detector' = detector ]_vars

C7_Witness ==
    /\ op = "detect"
    /\ ~state.face_detected
    /\ detector.blink_count = 1
    /\ \E i \in 1..Len(detector.eye_closed_history) : detector.eye_closed_history[i]
    /\ detector.eyebrow_baseline # None
    /\ DOMAIN detector.last_gesture_time # {}

\* Position of a gesture in the order of evaluation.
Rank(g) == CHOOSE i \in 1..Len(ChannelOrder) : ChannelOrder[i] = g

\* C9: the callbacks of one detect call come in the order DOUBLE_BLINK, LONG_CLOSE,
\* MOUTH_OPEN, EYEBROWS_RAISED, HEAD_TILT_LEFT, HEAD_TILT_RIGHT, each gesture at
\* most once, and the snapshot's detected_gesture is the last of them, NONE if none.
C9_OrderAndSlot ==
    op = "detect" =>
        /\ \A i, j \in 1..Len(events) : i < j => Rank(events[i]) < Rank(events[j])
        /\ state.detected_gesture = IF events = << >> THEN NONE ELSE events[Len(events)]

C9_Witness ==
    /\ op = "detect"
    /\ events = <<MOUTH_OPEN, EYEBROWS_RAISED, HEAD_TILT_LEFT>>
    /\ state.detected_gesture = HEAD_TILT_LEFT

\* C6: a detector that was reset answers every later call as a freshly constructed
\* detector holding the same configuration does: same snapshot, same callbacks.
C6_ResetLikeFresh == obs.twinSame

\* C8: on each of the first 10 gated-in samples after construction or reset the
\* snapshot's eyebrows_raised is false and no EYEBROWS_RAISED is emitted, whatever
\* the eyebrow position; the 11th gated-in sample can be judged raised.
C8_WarmUp ==
    (op = "detect" /\ state.face_detected /\ obs.nEligible <= BaselineMinSamples) =>
        /\ ~state.eyebrows_raised
        /\ Count(events, EYEBROWS_RAISED) = 0
        /\ obs.emits[EYEBROWS_RAISED] = 0

\* The 11th gated-in sample after a reset, eyebrows high, judged raised.
C8_Witness ==
    /\ op = "detect"
    /\ twin # << >>
    /\ obs.nEligible = BaselineMinSamples + 1
    /\ state.eyebrow_position = EyebrowHigh
    /\ state.eyebrows_raised

\* C10: while the eyes are closed on every face frame, LONG_CLOSE is emitted on the
\* frame the window first fills (frame 30 with the default thresholds) and on no
\* earlier frame; after that it is emitted on a frame exactly when at least
\* gesture_cooldown has elapsed since its last emission, so it is emitted again on
\* the first frame past the cooldown: there is no confirm latch.
C10_HeldLongClose ==
    [][ FaceStep =>
          LET n == detector.thresholds.long_close_frames
              cooldown == detector.thresholds.gesture_cooldown
          IN  /\ n = DefaultLongCloseFrames
              /\ state'.eyes_closed
              /\ obs'.nFrames < n => events' = << >>
              /\ obs'.nFrames = n => events' = <<LONG_CLOSE>>
              /\ obs'.nFrames > n =>
                    /\ LONG_CLOSE \in DOMAIN obs.lastEmit
                    /\ clock - obs.lastEmit[LONG_CLOSE] < cooldown => events' = << >>
                    /\ clock - obs.lastEmit[LONG_CLOSE] >= cooldown =>
                          events' = <<LONG_CLOSE>> ]_vars

\* The held closure emits LONG_CLOSE a second time, exactly gesture_cooldown after
\* the first, on a frame past the 30th.
C10_Witness ==
    /\ op = "detect"
    /\ detector.thresholds = DefaultThresholds
    /\ events = <<LONG_CLOSE>>
    /\ obs.emits[LONG_CLOSE] = 2
    /\ obs.nFrames > DefaultLongCloseFrames
    /\ obs.closedRun = obs.nFrames
    /\ detector.last_gesture_time[LONG_CLOSE] = clock

\* The band of a head-tilt gesture: the angles its channel counts as true.
InBand(th, g, angle) ==
    IF g = HEAD_TILT_LEFT
    THEN -(180 - th.head_tilt_deadzone) < angle /\ angle < 0
    ELSE 0 < angle /\ angle < 180 - th.head_tilt_deadzone

C13_UpdateThresholdsFrame ==
    [][ /\ op' = "update_thresholds" =>
              /\ detector'.thresholds \in {SmallThresholds, OtherThresholds}
              /\ [detector' EXCEPT !.thresholds = detector.thresholds] = detector
              /\ detector'.maxlen = detector.maxlen
              /\ state' = state /\ events' = events
        /\ detector'.thresholds # detector.thresholds => op' = "update_thresholds" ]_vars

\* A configuration with another long_close_frames installed on a detector whose eye
\* window is full, with a blink counted and a cooldown timestamp recorded.
C13_Witness ==
    /\ op = "update_thresholds"
    /\ detector.thresholds = OtherThresholds
    /\ detector.maxlen.eye_closed = SmallThresholds.long_close_frames
    /\ Len(detector.eye_closed_history) = detector.maxlen.eye_closed
    /\ detector.blink_count = 1
    /\ LONG_CLOSE \in DOMAIN detector.last_gesture_time

\* C14: in every reachable state each rolling window holds no more samples than the
\* detector's configured length for it: long_close_frames for the eyes-closed window,
\* mouth_confirm_frames, eyebrow_confirm_frames, head_tilt_confirm_frames for the others.
C14_WindowsWithinConfigured ==
    /\ Len(detector.eye_closed_history) <= detector.thresholds.long_close_frames
    /\ Len(detector.mouth_open_history) <= detector.thresholds.mouth_confirm_frames
    /\ Len(detector.eyebrow_raised_history) <= detector.thresholds.eyebrow_confirm_frames
    /\ Len(detector.head_tilt_left_history) <= detector.thresholds.head_tilt_confirm_frames
    /\ Len(detector.head_tilt_right_history) <= detector.thresholds.head_tilt_confirm_frames

\* C15: a blink seen while DOUBLE_BLINK is in cooldown emits nothing and leaves the
\* blink counter at 0 and the first-blink timestamp cleared; frames that are not
\* blinks leave both as they are; and a blink seen out of cooldown with the counter
\* at 0 emits nothing and starts a sequence, counter 1 and timestamp now. So a blink
\* in the cooldown is never the first blink of a later double blink.
C15_BlinkInCooldown ==
    [][ DetectStep =>
          LET inCooldown == ~Elapsed(obs, detector.thresholds, DOUBLE_BLINK, clock)
          IN  /\ (BlinkSeen /\ inCooldown) =>
                    /\ Count(events', DOUBLE_BLINK) = 0
                    /\ detector'.blink_count = 0
                    /\ detector'.last_blink_time = 0
              /\ ~BlinkSeen =>
                    /\ detector'.blink_count = detector.blink_count
                    /\ detector'.last_blink_time = detector.last_blink_time
              /\ (BlinkSeen /\ ~inCooldown /\ detector.blink_count = 0) =>
                    /\ Count(events', DOUBLE_BLINK) = 0
                    /\ detector'.blink_count = 1
                    /\ detector'.last_blink_time = clock ]_vars

\* A blink just seen inside the cooldown of an earlier DOUBLE_BLINK: nothing emitted,
\* no sequence in progress.
C15_Witness ==
    /\ op = "detect"
    /\ state.face_detected /\ ~state.eyes_closed
    /\ Len(detector.eye_closed_history) >= 2
    /\ detector.eye_closed_history[Len(detector.eye_closed_history) - 1]
    /\ DOUBLE_BLINK \in DOMAIN obs.lastEmit
    /\ clock - obs.lastEmit[DOUBLE_BLINK] < detector.thresholds.gesture_cooldown
    /\ events = << >>
    /\ detector.blink_count = 0

\* The number of samples a gesture's window must hold for the gesture to be emitted.
WindowLen(th, g) == IF g = LONG_CLOSE THEN th.long_close_frames ELSE ConfirmLen(th, g)

\* C16: after reset(), whatever the detector had seen before, a frame emits LONG_CLOSE
\* only if at least long_close_frames face frames were classified since the reset,
\* this one included, and emits MOUTH_OPEN, EYEBROWS_RAISED, HEAD_TILT_LEFT or
\* HEAD_TILT_RIGHT only if at least the channel's confirm-frame count were.
C16_RefillAfterReset ==
    [][ (FaceStep /\ SinceReset') =>
          \A g \in LevelGestures \cup {LONG_CLOSE} :
              Count(events', g) > 0 => obs'.nFrames >= WindowLen(detector.thresholds, g) ]_vars

\* After a reset, the frame that refills the mouth window emits MOUTH_OPEN at the
\* start time, where the calibrated detector before the reset had its windows full.
C16_Witness ==
    /\ SinceReset
    /\ op = "detect"
    /\ obs.nFrames = detector.thresholds.mouth_confirm_frames
    /\ Count(events, MOUTH_OPEN) = 1
    /\ clock = StartTime

\* C17: open connections are served by distinct handler objects, none of them the
\* module's own, each holding its connection; and a message or a disconnect handled
\* on one connection leaves the handler and the detector of every other open
\* connection as they were.
C17_ConnectionsIsolated ==
    [][ \A c \in Conns :
          /\ server'.conn[c] # None =>
                /\ server'.conn[c][1] # ModuleHandler
                /\ HandlerOf(server', c).websocket = <<c>>
                /\ \A d \in Conns \ {c} : server'.conn[d] # server'.conn[c]
          /\ (server.conn[c] # None /\ server'.last[1] # c) =>
                /\ server'.conn[c] = server.conn[c]
                /\ HandlerOf(server', c) = HandlerOf(server, c) ]_vars

\* Two open connections, the first with a full eye window and a LONG_CLOSE cooldown
\* running, while the second has just been reset.
C17_Witness ==
    /\ server.conn[1] # None /\ server.conn[2] # None
    /\ server.last = <<2, "reset_complete">>
    /\ LONG_CLOSE \in DOMAIN HandlerOf(server, 1).detector.last_gesture_time
    /\ Len(HandlerOf(server, 1).detector.eye_closed_history) = LongFrames
    /\ HandlerOf(server, 2).detector = NewDetector(LoadThresholds)

\* C18: the eye and mouth aspect ratios are vertical / horizontal (here in hundredths,
\* rounded down) when the horizontal distance is positive and 0 when it is 0; no
\* placement of the landmarks makes the division fail.
C18_AspectRatio ==
    landmarks.of # "none" =>
        LET vertical2   == Norm2(landmarks.top, landmarks.bottom)
            horizontal2 == Norm2(landmarks.left, landmarks.right)
            r           == landmarks.ratio
        IN  /\ r # DivisionFailed
            /\ landmarks.left = landmarks.right => r = 0
            /\ landmarks.left # landmarks.right =>
                  /\ r >= 0
                  /\ r * r * horizontal2 <= 10000 * vertical2
                  /\ (r + 1) * (r + 1) * horizontal2 > 10000 * vertical2

\* Degenerate geometry: the left and right landmarks coincide while top and bottom
\* do not, and the ratio is 0.
C18_Witness ==
    /\ landmarks.of = "mouth"
    /\ landmarks.left = landmarks.right
    /\ landmarks.top # landmarks.bottom
    /\ landmarks.ratio = 0

\* The confirm latch of gesture g, as _is_gesture_ready reads it.
Latched(d, g) == DictGet(d.gesture_confirmed, g, FALSE)

\* C19: a face frame emits MOUTH_OPEN, once, exactly when the mouth window with this
\* frame's sample appended holds mouth_confirm_frames samples, all true, MOUTH_OPEN is
\* out of cooldown and its latch is not set; the emission sets the latch and records
\* the current time for MOUTH_OPEN; a gesture not emitted on that frame keeps its
\* timestamp and does not get its latch set.
C19_MouthOpenEmission ==
    [][ FaceStep =>
          LET h == detector'.mouth_open_history
              fires == /\ Len(h) = detector.thresholds.mouth_confirm_frames
                       /\ \A i \in 1..Len(h) : h[i]
                       /\ Elapsed(obs, detector.thresholds, MOUTH_OPEN, clock)
                       /\ ~Latched(detector, MOUTH_OPEN)
          IN  /\ Count(events', MOUTH_OPEN) = (IF fires THEN 1 ELSE 0)
              /\ fires =>
                    /\ Latched(detector', MOUTH_OPEN)
                    /\ detector'.last_gesture_time[MOUTH_OPEN] = clock
                    /\ \A g \in Gestures \ {MOUTH_OPEN} :
                          Count(events', g) = 0 =>
                            /\ DictGet(detector'.last_gesture_time, g, 0)
                                  = DictGet(detector.last_gesture_time, g, 0)
                            /\ Latched(detector', g) => Latched(detector, g) ]_vars

\* MOUTH_OPEN emitted a second time, alone, while another gesture keeps an older timestamp.
C19_Witness ==
    /\ op = "detect"
    /\ events = <<MOUTH_OPEN>>
    /\ obs.emits[MOUTH_OPEN] = 2
    /\ Latched(detector, MOUTH_OPEN)
    /\ detector.last_gesture_time[MOUTH_OPEN] = clock
    /\ \E g \in Gestures \ {MOUTH_OPEN} :
          /\ g \in DOMAIN detector.last_gesture_time
          /\ detector.last_gesture_time[g] < clock

\* C20: a face frame on which the mouth is not open leaves the MOUTH_OPEN latch clear,
\* whatever the window holds; no other step but reset() clears a set latch; and with
\* the latch clear, a frame that makes the run of open frames at least
\* mouth_confirm_frames long with MOUTH_OPEN out of cooldown emits MOUTH_OPEN.
C20_MouthLatch ==
    [][ LET notOpen == FaceStep /\ ~state'.mouth_open
        IN  /\ notOpen => ~Latched(detector', MOUTH_OPEN)
            /\ (Latched(detector, MOUTH_OPEN) /\ ~notOpen /\ op' # "reset") =>
                  Latched(detector', MOUTH_OPEN)
            /\ ( /\ FaceStep
                 /\ ~Latched(detector, MOUTH_OPEN)
                 /\ obs'.trueRun[MOUTH_OPEN] >= detector.thresholds.mouth_confirm_frames
                 /\ Elapsed(obs, detector.thresholds, MOUTH_OPEN, clock) ) =>
                  Count(events', MOUTH_OPEN) = 1 ]_vars

\* One not-open frame after an emission: the latch is clear while the window still
\* holds an open sample.
C20_Witness ==
    /\ op = "detect"
    /\ state.face_detected /\ ~state.mouth_open
    /\ MOUTH_OPEN \in DOMAIN detector.last_gesture_time
    /\ ~Latched(detector, MOUTH_OPEN)
    /\ \E i \in 1..Len(detector.mouth_open_history) : detector.mouth_open_history[i]

\* A face frame inside the eyebrow gate on which the eyebrows are judged not raised.
GatedInNotRaised ==
    /\ FaceStep
    /\ IsHeadCenteredForEyebrow(detector.thresholds, state'.head_tilt_angle)
    /\ ~state'.eyebrows_raised

\* C21: a gated-in face frame judged not raised leaves the EYEBROWS_RAISED latch clear;
\* no other step but reset() clears a set latch, frames with the head outside the
\* gate included; and EYEBROWS_RAISED is emitted only if a gated-in frame judged not
\* raised was seen since its last emission.
C21_EyebrowLatch ==
    [][ /\ GatedInNotRaised => ~Latched(detector', EYEBROWS_RAISED)
        /\ (Latched(detector, EYEBROWS_RAISED) /\ ~GatedInNotRaised /\ op' # "reset") =>
              Latched(detector', EYEBROWS_RAISED)
        /\ (DetectStep /\ Count(events', EYEBROWS_RAISED) > 0) =>
              (~Latched(detector, EYEBROWS_RAISED) /\ obs.armed[EYEBROWS_RAISED]) ]_vars

\* After an emission the head left the gate and came back with the eyebrows raised:
\* the window is full of raised frames, the cooldown is over, and nothing is emitted.
C21_Witness ==
    /\ op = "detect"
    /\ state.eyebrows_raised
    /\ obs.trueRun[EYEBROWS_RAISED] = detector.thresholds.eyebrow_confirm_frames
    /\ obs.runEmits[EYEBROWS_RAISED] = 0
    /\ Latched(detector, EYEBROWS_RAISED)
    /\ clock - obs.lastEmit[EYEBROWS_RAISED] > detector.thresholds.gesture_cooldown
    /\ events = << >>

\* C22: the eyebrow baseline and its history change only on a gated-in face frame
\* judged not raised (or by reset()); gated-out frames, frames judged raised, no-face
\* frames leave both as they were.
C22_BaselineFrame ==
    [][ ( \/ detector'.eyebrow_baseline # detector.eyebrow_baseline
          \/ detector'.eyebrow_baseline_history # detector.eyebrow_baseline_history ) =>
            (GatedInNotRaised \/ op' = "reset") ]_vars

\* A frame judged raised right after the warm-up: the baseline history still holds
\* the ten warm-up samples, the raised sample was not added.
C22_Witness ==
    /\ op = "detect"
    /\ state.eyebrows_raised
    /\ obs.nEligible = BaselineMinSamples + 1
    /\ Len(detector.eyebrow_baseline_history) = BaselineMinSamples
    /\ detector.eyebrow_baseline # None

\* C23: a centered face frame leaves the HEAD_TILT_LEFT and HEAD_TILT_RIGHT latches
\* clear; no other step but reset() clears either latch when set; and each of the two
\* gestures is emitted only if a centered frame was seen since its last emission.
C23_HeadLatches ==
    [][ LET centered == FaceStep /\ state'.head_tilt_center
        IN  \A g \in {HEAD_TILT_LEFT, HEAD_TILT_RIGHT} :
              /\ centered => ~Latched(detector', g)
              /\ (Latched(detector, g) /\ ~centered /\ op' # "reset") => Latched(detector', g)
              /\ (DetectStep /\ Count(events', g) > 0) =>
                    (~Latched(detector, g) /\ obs.armed[g]) ]_vars

\* HEAD_TILT_LEFT fired, the head went to the right band, where HEAD_TILT_RIGHT fired
\* later, and came back left: the left window is full, the cooldown over, nothing emitted.
C23_Witness ==
    /\ op = "detect"
    /\ state.head_tilt_left
    /\ obs.trueRun[HEAD_TILT_LEFT] >= detector.thresholds.head_tilt_confirm_frames
    /\ obs.runEmits[HEAD_TILT_LEFT] = 0
    /\ Latched(detector, HEAD_TILT_LEFT)
    /\ HEAD_TILT_RIGHT \in DOMAIN obs.lastEmit
    /\ obs.lastEmit[HEAD_TILT_RIGHT] > obs.lastEmit[HEAD_TILT_LEFT]
    /\ clock - obs.lastEmit[HEAD_TILT_LEFT] > detector.thresholds.gesture_cooldown
    /\ events = << >>

\* C24: on a face frame with the head outside the eyebrow gate the snapshot's
\* eyebrows_raised is false whatever the eyebrow position, false is appended to the
\* eyebrows-raised window and EYEBROWS_RAISED is not emitted; EYEBROWS_RAISED is
\* emitted only by a frame ending a run of at least eyebrow_confirm_frames raised
\* (hence gated-in) face frames.
C24_EyebrowGate ==
    [][ FaceStep =>
          LET h == detector'.eyebrow_raised_history
          IN  /\ ~IsHeadCenteredForEyebrow(detector.thresholds, state'.head_tilt_angle) =>
                    /\ ~state'.eyebrows_raised
                    /\ Len(h) > 0 /\ ~h[Len(h)]
                    /\ Count(events', EYEBROWS_RAISED) = 0
              /\ state'.eyebrows_raised =>
                    IsHeadCenteredForEyebrow(detector.thresholds, state'.head_tilt_angle)
              /\ Count(events', EYEBROWS_RAISED) > 0 =>
                    obs'.trueRun[EYEBROWS_RAISED] >= detector.thresholds.eyebrow_confirm_frames
        ]_vars

\* A gated-out frame with the eyebrows high, the baseline active and a raised frame
\* just before it: judged not raised, the run is broken.
C24_Witness ==
    /\ op = "detect"
    /\ state.face_detected
    /\ ~IsHeadCenteredForEyebrow(detector.thresholds, state.head_tilt_angle)
    /\ state.eyebrow_position = EyebrowHigh
    /\ detector.eyebrow_baseline # None
    /\ ~state.eyebrows_raised
    /\ detector.eyebrow_raised_history = <<TRUE, FALSE>>

\* C25: a blink seen with DOUBLE_BLINK out of cooldown and either no sequence pending
\* or the recorded first blink double_blink_interval or more in the past emits
\* nothing and starts a sequence (counter 1, timestamp now); a blink seen out of
\* cooldown less than double_blink_interval after the recorded first blink emits
\* DOUBLE_BLINK once and clears the sequence.
C25_LateBlinkRestarts ==
    [][ (BlinkSeen /\ Elapsed(obs, detector.thresholds, DOUBLE_BLINK, clock)) =>
          LET gap == clock - detector.last_blink_time
              interval == detector.thresholds.double_blink_interval
          IN  /\ (detector.blink_count = 0 \/ gap >= interval) =>
                    /\ Count(events', DOUBLE_BLINK) = 0
                    /\ detector'.blink_count = 1
                    /\ detector'.last_blink_time = clock
              /\ (detector.blink_count >= 1 /\ gap < interval) =>
                    /\ Count(events', DOUBLE_BLINK) = 1
                    /\ detector'.blink_count = 0 ]_vars

\* The second blink of the scenario: seen 1.0 s after the start with a first blink
\* pending from at most 0.2 s, it emits nothing and becomes the first blink itself.
C25_Witness ==
    /\ op = "detect"
    /\ clock = StartTime + 10
    /\ state.face_detected /\ ~state.eyes_closed
    /\ obs.pending = << >>
    /\ obs.emits[DOUBLE_BLINK] = 0
    /\ detector.blink_count = 1
    /\ detector.last_blink_time = clock
    /\ events = << >>

\* C26: a "ping" message is answered with "pong" and leaves the connection's detector
\* as it was; a "reset" message is answered with "reset_complete" and leaves the
\* detector with empty windows, no timestamps, no latches, no blink sequence and no
\* baseline; a message of any other type but "frame" is answered with nothing and
\* leaves the detector as it was.
C26_Dispatch ==
    [][ \A c \in Conns :
          (server.conn[c] # None /\ server'.recv # << >> /\ server'.recv[1] = c) =>
            LET kind == server'.recv[2]
                d    == HandlerOf(server, c).detector
            IN  /\ kind = "ping" =>
                      /\ server'.last = <<c, "pong">>
                      /\ HandlerOf(server', c).detector = d
                /\ kind = "reset" =>
                      /\ server'.last = <<c, "reset_complete">>
                      /\ LET e == HandlerOf(server', c).detector
                         IN  /\ e.thresholds = d.thresholds
                             /\ e.eye_closed_history = << >>
                             /\ e.mouth_open_history = << >>
                             /\ e.eyebrow_raised_history = << >>
                             /\ e.head_tilt_left_history = << >>
                             /\ e.head_tilt_right_history = << >>
                             /\ e.eyebrow_baseline_history = << >>
                             /\ e.eyebrow_baseline = None
                             /\ e.blink_count = 0
                             /\ e.last_blink_time = 0
                             /\ DOMAIN e.last_gesture_time = {}
                             /\ \A g \in Gestures : ~Latched(e, g)
                /\ kind = "other" =>
                      /\ server'.last = server.last
                      /\ HandlerOf(server', c).detector = d ]_vars

\* Connection 1 sent a message of unknown type after its detector had emitted
\* LONG_CLOSE: the last message sent by the server is still the one to connection 2.
C26_Witness ==
    /\ server.recv = <<1, "other">>
    /\ server.last = <<2, "face_state">>
    /\ LONG_CLOSE \in DOMAIN HandlerOf(server, 1).detector.last_gesture_time

\* C27: text that is not JSON is answered with an error message of code INVALID_JSON
\* and leaves the connection open; a "frame" message whose data does not decode is
\* answered with an error message of code DECODE_ERROR; both leave the connection's
\* handler, its detector included, as it was.
C27_BadInput ==
    [][ \A c \in Conns :
          (server.conn[c] # None /\ server'.recv # << >> /\ server'.recv[1] = c) =>
            LET kind == server'.recv[2]
            IN  /\ kind = "invalid_json" =>
                      /\ server'.last = <<c, "error", "INVALID_JSON">>
                      /\ server'.conn[c] = server.conn[c]
                      /\ HandlerOf(server', c) = HandlerOf(server, c)
                      /\ HandlerOf(server', c).is_connected
                /\ kind = "frame_undecodable" =>
                      /\ server'.last = <<c, "error", "DECODE_ERROR">>
                      /\ server'.conn[c] = server.conn[c]
                      /\ HandlerOf(server', c) = HandlerOf(server, c) ]_vars

\* Invalid JSON received on a connection whose detector holds closed-eye samples:
\* the error is sent, the connection is open, the samples are kept.
C27_Witness ==
    /\ server.recv = <<1, "invalid_json">>
    /\ server.last = <<1, "error", "INVALID_JSON">>
    /\ server.conn[1] # None
    /\ HandlerOf(server, 1).is_connected
    /\ Len(HandlerOf(server, 1).detector.eye_closed_history) = 2

\* The last detect call found no face.
FaceLost == op = "detect" /\ ~state.face_detected

\* C28: a detector that is given no-face frames between its face frames answers every
\* face frame as a detector that is given the face frames alone, and is left in the
\* same state; in particular the first face frame after a face loss emits LONG_CLOSE
\* when it brings the closed frames to long_close_frames with LONG_CLOSE out of
\* cooldown, and is taken as a blink when it is open and the face frame before the
\* loss was closed.
C28_FaceLossTransparent ==
    [][ FaceStep =>
          /\ obs'.twinSame
          /\ twin' = <<detector'>>
          /\ ( /\ FaceLost
               /\ state'.eyes_closed
               /\ obs'.closedRun >= detector.thresholds.long_close_frames
               /\ Elapsed(obs, detector.thresholds, LONG_CLOSE, clock) ) =>
                Count(events', LONG_CLOSE) = 1
          /\ ( /\ FaceLost
               /\ BlinkSeen
               /\ detector.blink_count = 0
               /\ Elapsed(obs, detector.thresholds, DOUBLE_BLINK, clock) ) =>
                (detector'.blink_count = 1 /\ detector'.last_blink_time = clock) ]_vars

\* The face is lost one frame before a closed run would reach long_close_frames, and
\* the detector holds what the detector that never lost the face holds.
C28_Witness ==
    /\ FaceLost
    /\ obs.closedRun = detector.thresholds.long_close_frames - 1
    /\ Len(detector.eye_closed_history) = obs.closedRun
    /\ twin = <<detector>>

\* The window of a gesture emitted when its window is full of true samples.
Window(d, g) == IF g = LONG_CLOSE THEN d.eye_closed_history ELSE d.mouth_open_history

\* C29: for the eyes-closed and the mouth window of a detector constructed with
\* SmallThresholds: while the configured window length differs from the length given
\* at construction, no frame taken with the window holding that many samples emits
\* the gesture; and while the configured length is larger than the length given at
\* construction no frame emits the gesture, before or after reset().
C29_StaleCapacity ==
    [][ FaceStep =>
          \A g \in {LONG_CLOSE, MOUTH_OPEN} :
              LET capacity == WindowLen(SmallThresholds, g)
                  length   == WindowLen(detector.thresholds, g)
              IN  /\ (length # capacity /\ Len(Window(detector, g)) = capacity) =>
                        Count(events', g) = 0
                  /\ length > capacity => Count(events', g) = 0 ]_vars

\* After update_thresholds made long_close_frames larger than at construction and a
\* reset(), a run of long_close_frames closed frames has emitted nothing: the window
\* is full at the length given at construction.
C29_Witness ==
    /\ op = "detect"
    /\ SinceReset
    /\ detector.thresholds.long_close_frames > SmallThresholds.long_close_frames
    /\ obs.closedRun >= detector.thresholds.long_close_frames
    /\ Len(detector.eye_closed_history) = SmallThresholds.long_close_frames
    /\ obs.emits[LONG_CLOSE] = 0
    /\ events = << >>

\* C30: an open face frame that follows a closed face frame is handled as a blink
\* whatever the length of the closure, one closed frame (fewer than min_blink_frames)
\* and a closure long enough to have emitted LONG_CLOSE included: in the cooldown of
\* DOUBLE_BLINK it clears the sequence, less than double_blink_interval after a
\* recorded first blink it emits DOUBLE_BLINK, and otherwise it becomes the first
\* blink of a sequence.
C30_EveryOpeningIsBlink ==
    [][ \A run \in 1..RunCap(detector) :
          (BlinkSeen /\ obs.closedRun = run) =>
            LET inCooldown == ~Elapsed(obs, detector.thresholds, DOUBLE_BLINK, clock)
                second     == /\ detector.blink_count >= 1
                              /\ clock - detector.last_blink_time
                                   < detector.thresholds.double_blink_interval
            IN  /\ inCooldown =>
                      (Count(events', DOUBLE_BLINK) = 0 /\ detector'.blink_count = 0)
                /\ (~inCooldown /\ second) =>
                      (Count(events', DOUBLE_BLINK) = 1 /\ detector'.blink_count = 0)
                /\ (~inCooldown /\ ~second) =>
                      /\ Count(events', DOUBLE_BLINK) = 0
                      /\ detector'.blink_count = 1
                      /\ detector'.last_blink_time = clock ]_vars

\* The first DOUBLE_BLINK since construction, emitted by the opening after a single
\* closed frame, less than double_blink_interval after a closure that emitted LONG_CLOSE.
C30_Witness ==
    /\ op = "detect"
    /\ events = <<DOUBLE_BLINK>>
    /\ obs.emits[DOUBLE_BLINK] = 1
    /\ detector.thresholds.min_blink_frames > 1
    /\ detector.eye_closed_history = <<FALSE, TRUE, FALSE>>
    /\ LONG_CLOSE \in DOMAIN obs.lastEmit
    /\ clock - obs.lastEmit[LONG_CLOSE] < detector.thresholds.double_blink_interval

\* C31: the callbacks of one detect call never hold both HEAD_TILT_LEFT and
\* HEAD_TILT_RIGHT, nor both DOUBLE_BLINK and LONG_CLOSE; at most one of the
\* snapshot's head_tilt_center, head_tilt_left, head_tilt_right is true; and one call
\* makes at most four callbacks.
C31_ExclusiveGestures ==
    op = "detect" =>
        /\ ~(Count(events, HEAD_TILT_LEFT) > 0 /\ Count(events, HEAD_TILT_RIGHT) > 0)
        /\ ~(Count(events, DOUBLE_BLINK) > 0 /\ Count(events, LONG_CLOSE) > 0)
        /\ Cardinality({f \in {"center", "left", "right"} :
                           CASE f = "center" -> state.head_tilt_center
                             [] f = "left"   -> state.head_tilt_left
                             [] f = "right"  -> state.head_tilt_right}) <= 1
        /\ Len(events) <= 4

\* A call that makes four callbacks.
C31_Witness ==
    /\ op = "detect"
    /\ events = <<LONG_CLOSE, MOUTH_OPEN, EYEBROWS_RAISED, HEAD_TILT_RIGHT>>
    /\ state.head_tilt_right /\ ~state.head_tilt_left /\ ~state.head_tilt_center

C33_BlinkSequenceState ==
    /\ detector.blink_count \in {0, 1}
    /\ detector.blink_count = 0 <=> detector.last_blink_time = 0
    /\ (op = "detect" /\ Count(events, DOUBLE_BLINK) > 0) =>
          (detector.blink_count = 0 /\ detector.last_blink_time = 0)

\* The second DOUBLE_BLINK of a session has just been emitted: counter and timestamp
\* are cleared again.
C33_Witness ==
    /\ op = "detect"
    /\ events = <<DOUBLE_BLINK>>
    /\ obs.emits[DOUBLE_BLINK] = 2
    /\ detector.blink_count = 0
    /\ detector.last_blink_time = 0

\* C34: in every state the eyebrow baseline history holds at most 30 samples, the
\* baseline is active exactly when the history holds at least 10 samples, and an
\* active baseline is the mean of the samples in the history (their sum over their
\* number); and a step that leaves an active baseline inactive is a reset().
C34_Baseline ==
    /\ [] /\ Len(detector.eyebrow_baseline_history) <= BaselineHistoryMaxLen
          /\ detector.eyebrow_baseline # None <=>
                Len(detector.eyebrow_baseline_history) >= BaselineMinSamples
          /\ detector.eyebrow_baseline # None =>
                detector.eyebrow_baseline =
                    <<Sum(detector.eyebrow_baseline_history),
                      Len(detector.eyebrow_baseline_history)>>
    /\ [][ (detector.eyebrow_baseline # None /\ detector'.eyebrow_baseline = None) =>
              op' = "reset" ]_vars

\* The history is full and has rolled: its oldest sample is slightly up, its newest
\* at rest, and the baseline is the mean of the thirty.
C34_Witness ==
    /\ Len(detector.eyebrow_baseline_history) = BaselineHistoryMaxLen
    /\ detector.eyebrow_baseline_history[1] = EyebrowLow
    /\ detector.eyebrow_baseline_history[BaselineHistoryMaxLen] = 0
    /\ detector.eyebrow_baseline_history[BaselineHistoryMaxLen - 1] = 0
    /\ obs.nFrames >= 2
    /\ detector.eyebrow_baseline =
          <<Sum(detector.eyebrow_baseline_history), BaselineHistoryMaxLen>>
    /\ detector.eyebrow_baseline[1] < BaselineHistoryMaxLen * EyebrowLow

====
